---- MODULE Spec2Model ----
(***************************************************************************)
(* A model of calendarBridge's safe_sync.py (Outlook -> Google Calendar    *)
(* one-way reconciliation): identity keys, the retry wrapper, the parse of *)
(* the export, the content hash, the state file and the main run (upsert   *)
(* pass, orphan pass, save, exit code), also against a calendar that       *)
(* others delete from, with the process terminated while it saves, and     *)
(* with two processes at once; of cleanup_duplicates.py; and of the        *)
(* earlier, quarantine-aware safe_sync.py kept under backups/.             *)
(*                                                                         *)
(* Text is modelled as a sequence of one-character strings, so that the    *)
(* string operations of the code (split, slicing, formatting) are computed *)
(* as the code computes them.                                              *)
(***************************************************************************)
EXTENDS Integers, Sequences, FiniteSets, TLC

VARIABLES
    \* --- identity-key pipeline (load_local_events / insert echo / fetch) ---
    kpc, kcomp, kev, kitem, klocal, kremote, kresult,
    \* --- load_local_events on a whole export ---
    lpc, lcomps, levents,
    \* --- one cleanup_duplicates run ---
    dpc, apply, dstate, devents, dup_info, dtodo, dstats, dcalls,
    \* --- two safe_sync processes at once: which one is on the processor, ---
    \* --- the suspended one's variables, and (observation) the keys the   ---
    \* --- other process had listed for and not yet processed when the     ---
    \* --- later of the two runs built its index                           ---
    me, other, raced,
    \* --- one run of the quarantine-aware safe_sync ---
    qpc, qexport, qfile, quarantined, outlook, google, qtodo, queue, qstats, qcalls, qremote,
    \* --- compute_event_hash on two instances ---
    hpc, hleft, hright, hhash,
    \* --- load_local_events on a recurring series ---
    spc, scal, sexpanded, sevents,
    \* --- one cycle of calendar_sync.py (CalendarSync.run) ---
    cpc, export_file, cremote, cnext_id, existing_google_events, all_expanded_events,
    outlook_uids_in_range, processed_uids_this_run, orphan_uids, errors_encountered,
    last_sync_success, consecutive_failures, events_created, events_updated, events_deleted,
    health_file, cstate_file, ccalls, cparsed,
    \* --- request_with_backoff ---
    bpc, script, attempt, backoff, slept, outcome,
    \* --- the remote calendar and the files on disk ---
    remote, next_id, echo, native_uid, state_file,
    \* --- one safe_sync run (main) ---
    pc, force_full, state_data, local_events, google_events, stats,
    processed_google_ids, todo, orphan_todo, exit_code,
    \* --- observation of the run (not program state) ---
    calls, confirmed, visited, run_start_file, steady, clean, tampered, runs

keyVars == <<kpc, kcomp, kev, kitem, klocal, kremote, kresult>>
loadVars == <<lpc, lcomps, levents>>
dupVars == <<dpc, apply, dstate, devents, dup_info, dtodo, dstats, dcalls>>
raceVars == <<me, other, raced>>
quarVars == <<qpc, qexport, qfile, quarantined, outlook, google, qtodo, queue, qstats, qcalls,
             qremote>>
hashVars == <<hpc, hleft, hright, hhash>>
serVars == <<spc, scal, sexpanded, sevents>>
calVars == <<cpc, export_file, cremote, cnext_id, existing_google_events, all_expanded_events,
            outlook_uids_in_range, processed_uids_this_run, orphan_uids, errors_encountered,
            last_sync_success, consecutive_failures, events_created, events_updated,
            events_deleted, health_file, cstate_file, ccalls, cparsed>>
boVars == <<bpc, script, attempt, backoff, slept, outcome>>
envVars == <<remote, next_id, echo, native_uid, state_file>>
runVars == <<pc, force_full, state_data, local_events, google_events, stats,
             processed_google_ids, todo, orphan_todo, exit_code>>
obsVars == <<calls, confirmed, visited, run_start_file, steady, clean, tampered, runs>>
vars == <<keyVars, loadVars, dupVars, raceVars, quarVars, hashVars, serVars, calVars, boVars, envVars, runVars, obsVars>>

-----------------------------------------------------------------------------
(* Text helpers                                                            *)

Digits == <<"0", "1", "2", "3", "4", "5", "6", "7", "8", "9">>

Pad2(n) == <<Digits[(n \div 10) + 1], Digits[(n % 10) + 1]>>

Abs(n) == IF n < 0 THEN -n ELSE n

Min(a, b) == IF a < b THEN a ELSE b

Contains(s, c) == \E i \in 1..Len(s) : s[i] = c

\* Index of the first occurrence of character c in s, 0 when there is none.
IndexOf(s, c) ==
    IF Contains(s, c) THEN CHOOSE i \in 1..Len(s) : s[i] = c /\ \A j \in 1..(i - 1) : s[j] # c
    ELSE 0

\* str.split(c)[0]
SplitHead(s, c) == IF Contains(s, c) THEN SubSeq(s, 1, IndexOf(s, c) - 1) ELSE s

\* str.split(c)[1]; the callers guard it by `c in s`
SplitSecond(s, c) ==
    LET rest == SubSeq(s, IndexOf(s, c) + 1, Len(s))
    IN  SplitHead(rest, c)

\* s[:n]
Take(s, n) == SubSeq(s, 1, Min(n, Len(s)))

-----------------------------------------------------------------------------
(* Dates and instants.  Every date of the model lies in March 2024; a      *)
(* datetime is [day, hh, mm, ss, aware, off]: wall-clock fields plus the   *)
(* UTC offset in minutes (aware = FALSE: a naive, floating datetime).      *)

DateStr(day) == <<"2", "0", "2", "4", "-", "0", "3", "-">> \o Pad2(day)

TimeStr(hh, mm, ss) == Pad2(hh) \o <<":">> \o Pad2(mm) \o <<":">> \o Pad2(ss)

\* utcoffset as datetime.isoformat() prints it
OffsetStr(off) ==
    <<IF off < 0 THEN "-" ELSE "+">> \o Pad2(Abs(off) \div 60) \o <<":">> \o Pad2(Abs(off) % 60)

IsDate(dt) == dt.kind = "date"
IsDateTime(dt) == dt.kind = "datetime"

MkDate(d) == [kind |-> "date", day |-> d, hh |-> 0, mm |-> 0, ss |-> 0, aware |-> FALSE, off |-> 0]
MkDateTime(d, h, m, s, aw, o) ==
    [kind |-> "datetime", day |-> d, hh |-> h, mm |-> m, ss |-> s, aware |-> aw, off |-> o]

NoDt == [kind |-> "none", day |-> 0, hh |-> 0, mm |-> 0, ss |-> 0, aware |-> FALSE, off |-> 0]

\* minutes since 2024-03-00T00:00Z of the instant a datetime denotes
\* (a naive datetime is read as UTC, as to_iso does)
UtcMinutes(dt) == dt.day * 1440 + dt.hh * 60 + dt.mm - (IF dt.aware THEN dt.off ELSE 0)

\* the same instant on the wall clock of offset `off`
AtOffset(dt, off) ==
    LET m == UtcMinutes(dt) + off
    IN  MkDateTime(m \div 1440, (m % 1440) \div 60, m % 60, dt.ss, TRUE, off)

\* dt + timedelta(minutes = n) / dt + timedelta(days = n)
PlusMinutes(dt, n) ==
    LET m == dt.day * 1440 + dt.hh * 60 + dt.mm + n
    IN  [dt EXCEPT !.day = m \div 1440, !.hh = (m % 1440) \div 60, !.mm = m % 60]
PlusDays(dt, n) == [dt EXCEPT !.day = dt.day + n]

\* to_iso
to_iso(dt) ==
    IF IsDate(dt) THEN DateStr(dt.day)
    ELSE DateStr(dt.day) \o <<"T">> \o TimeStr(dt.hh, dt.mm, dt.ss)
           \o OffsetStr(IF dt.aware THEN dt.off ELSE 0)

\* str(dt): "YYYY-MM-DD" for a date, "YYYY-MM-DD HH:MM:SS[+HH:MM]" for a datetime
PyStr(dt) ==
    IF IsDate(dt) THEN DateStr(dt.day)
    ELSE DateStr(dt.day) \o <<" ">> \o TimeStr(dt.hh, dt.mm, dt.ss)
           \o (IF dt.aware THEN OffsetStr(dt.off) ELSE <<>>)

\* normalize_to_date
normalize_to_date(dt) == MkDate(dt.day)

-----------------------------------------------------------------------------
(* Configuration (module level of safe_sync.py)                            *)

ORPHAN_MARKER == "calendarbridge"
TIMEZONE == "America/New_York"
DELETE_ORPHANS == TRUE

\* Python's None, and a key that a dict does not have
None == "<None>"
Absent == "<absent>"
NoText == <<>>

\* None and an absent key where the value is otherwise a text
NoneText == <<"<None>">>
AbsentText == <<"<absent>">>

\* d.get(key, default) on a field that may be absent
Get(x, default) == IF x = Absent THEN default ELSE x

\* `x or y` on an opaque string, and on a text
OrElse(x, y) == IF x = "" THEN y ELSE x
OrElseText(x, y) == IF x = NoText THEN y ELSE x

-----------------------------------------------------------------------------
(* ICS components, as icalendar / recurring_ical_events hand them over.    *)
(* SUMMARY and LOCATION are opaque, already stripped strings; DESCRIPTION  *)
(* is a text, character by character, because its length matters.          *)

MkComp(uid, flag, s, e, summ, loc, desc) ==
    [name |-> "VEVENT", uid |-> uid, ms_allday |-> flag, dtstart |-> s, dtend |-> e,
     summary |-> summ, location |-> loc, description |-> desc]

\* (mutant) method 3 without the look at the clock
MidnightToMidnightAnyHour(s, e) ==
    LET delta == UtcMinutes(e) - UtcMinutes(s)
    IN  delta > 0 /\ delta \div 1440 >= 1 /\ delta % 1440 = 0

\* is_all_day_event, method 3: midnight to midnight, a whole number of days
MidnightToMidnight(s, e) ==
    LET start_midnight == s.hh = 0 /\ s.mm = 0 /\ s.ss = 0
        end_midnight == e.hh = 0 /\ e.mm = 0 /\ e.ss = 0
        delta == UtcMinutes(e) - UtcMinutes(s)
    IN  /\ start_midnight /\ end_midnight
        /\ delta > 0
        /\ delta \div 1440 >= 1 /\ delta % 1440 = 0

is_all_day_event(comp) ==
    IF comp.ms_allday THEN TRUE
    ELSE IF comp.dtstart.kind = "none" THEN FALSE
    ELSE IF IsDate(comp.dtstart) THEN TRUE
    ELSE IF IsDateTime(comp.dtend) THEN MidnightToMidnight(comp.dtstart, comp.dtend)
    ELSE FALSE

\* f"{uid}|{start}"
MakeKey(uid, start_str) == uid \o <<"|">> \o start_str

\* The dict entry one component contributes in load_local_events
\* (valid only for components that pass the `continue` guards).
LocalEvent(comp) ==
    LET all_day == is_all_day_event(comp)
        start_date == normalize_to_date(comp.dtstart)
        end0 == IF comp.dtend.kind = "none" THEN PlusDays(start_date, 1)
                ELSE normalize_to_date(comp.dtend)
        end_date == IF end0.day <= start_date.day THEN PlusDays(start_date, 1) ELSE end0
        dtend == IF comp.dtend.kind = "none" THEN PlusMinutes(comp.dtstart, 60) ELSE comp.dtend
    IN  IF all_day
        THEN [key |-> MakeKey(comp.uid, to_iso(start_date)),
              ev |-> [uid |-> comp.uid, summary |-> comp.summary, location |-> comp.location,
                      description |-> comp.description, start |-> start_date,
                      end |-> end_date, allDay |-> TRUE]]
        ELSE [key |-> MakeKey(comp.uid, to_iso(comp.dtstart)),
              ev |-> [uid |-> comp.uid, summary |-> comp.summary, location |-> comp.location,
                      description |-> comp.description, start |-> comp.dtstart,
                      end |-> dtend, allDay |-> FALSE]]

\* the guards of the loop body: a component that is skipped contributes nothing
Skipped(comp) == comp.name # "VEVENT" \/ comp.uid = NoText \/ comp.dtstart.kind = "none"

\* load_local_events over the expanded components, in order: events[key] = {...}
RECURSIVE load_local_events(_)
load_local_events(comps) ==
    IF comps = <<>> THEN <<>>
    ELSE LET n == Len(comps)
             before == load_local_events(SubSeq(comps, 1, n - 1))
             c == comps[n]
         IN  IF Skipped(c) THEN before
             ELSE LET le == LocalEvent(c)
                  IN  [k \in DOMAIN before \cup {le.key} |->
                          IF k = le.key THEN le.ev ELSE before[k]]

\* the slice bound of `ev.get("description", "")[:500]`
DESCRIPTION_HASHED == 500

\* ev.get("description", "")[:500]
HashedDescription(description) == Take(description, DESCRIPTION_HASHED)

\* compute_event_hash: the digest of the sorted-key JSON of six fields, taken
\* as collision-free: the tuple of what is serialised.
compute_event_hash(ev) ==
    <<ev.summary, ev.location, HashedDescription(ev.description), PyStr(ev.start),
      PyStr(ev.end), ev.allDay>>

-----------------------------------------------------------------------------
(* Event bodies and the remote's echo of them                              *)

NoStart == [date |-> NoText, dateTime |-> NoText, timeZone |-> ""]

\* build_event_body
build_event_body(ev, tz) ==
    [summary |-> OrElse(ev.summary, "(No title)"),
     location |-> OrElse(ev.location, None),
     description |-> OrElseText(ev.description, NoneText),
     icalUID |-> ev.uid,
     source |-> ORPHAN_MARKER,
     start |-> IF ev.allDay THEN [NoStart EXCEPT !.date = to_iso(normalize_to_date(ev.start))]
               ELSE [NoStart EXCEPT !.dateTime = to_iso(ev.start), !.timeZone = tz],
     end |-> IF ev.allDay THEN [NoStart EXCEPT !.date = to_iso(normalize_to_date(ev.end))]
             ELSE [NoStart EXCEPT !.dateTime = to_iso(ev.end), !.timeZone = tz],
     transparency |-> IF ev.allDay THEN "transparent" ELSE Absent]

\* How the remote prints an instant: in one offset, as "Z" when form.z.
EchoDateTime(dt, form, tz) ==
    LET w == AtOffset(dt, form.off)
    IN  [NoStart EXCEPT !.dateTime = DateStr(w.day) \o <<"T">> \o TimeStr(w.hh, w.mm, w.ss)
                                       \o (IF form.z THEN <<"Z">> ELSE OffsetStr(form.off)),
                        !.timeZone = tz]

EchoTime(dt, allDay, form, tz) ==
    IF allDay THEN [NoStart EXCEPT !.date = to_iso(normalize_to_date(dt))]
    ELSE EchoDateTime(dt, form, tz)

\* The remote's own iCalUID for an event inserted without one.
GeneratedUid(id) == <<"g">> \o Pad2(id)

\* The entity the remote holds after events.insert / events.patch of `body`
\* for instance `ev`, as events.list returns it.  Fields sent as None are
\* not stored; `at` is the start instant the remote orders the listing by.
RemoteEcho(id, body, ev, form, native) ==
    [id |-> id,
     iCalUID |-> IF native THEN GeneratedUid(id) ELSE NoText,
     icalUID |-> body.icalUID,
     source |-> body.source,
     summary |-> body.summary,
     location |-> IF body.location = None THEN Absent ELSE body.location,
     description |-> IF body.description = NoneText THEN AbsentText ELSE body.description,
     start |-> EchoTime(ev.start, ev.allDay, form, body.start.timeZone),
     end |-> EchoTime(ev.end, ev.allDay, form, body.end.timeZone),
     transparency |-> body.transparency,
     at |-> UtcMinutes(ev.start)]

\* fetch_google_events, the body of `for item in resp["items"]`: the key the
\* item is indexed under, NoText when it is not indexed.
RemoteKey(item) ==
    LET ical_uid == IF item.iCalUID # NoText THEN item.iCalUID ELSE item.icalUID
        start_str == IF item.start.date # NoText THEN item.start.date ELSE item.start.dateTime
        rest == SplitSecond(start_str, "T")
        time_part == IF Len(rest) >= 8 THEN Take(rest, 8)
                     ELSE SplitHead(SplitHead(rest, "+"), "-")
    IN  IF ical_uid = NoText \/ start_str = NoText THEN NoText
        ELSE IF Contains(start_str, "T")
             THEN MakeKey(ical_uid, SplitHead(start_str, "T") \o <<"T">> \o time_part)
             ELSE MakeKey(ical_uid, start_str)

\* (mutant) every event counts as ours
is_our_event_any(g_event) == TRUE

\* is_our_event
is_our_event(g_event) == g_event.source = ORPHAN_MARKER

-----------------------------------------------------------------------------
(* Dicts are functions; SyncState.data is the pair of dicts "events"       *)
(* (key -> content hash) and "google_ids" (key -> remote id).              *)

EmptyMap == [k \in {} |-> 0]

Put(f, k, v) == [x \in DOMAIN f \cup {k} |-> IF x = k THEN v ELSE f[x]]

Drop(f, k) == [x \in DOMAIN f \ {k} |-> f[x]]

\* SyncState._load when there is no state file
EmptyState == [events |-> EmptyMap, google_ids |-> EmptyMap]

\* A state file that holds the beginning of a JSON document, or nothing:
\* what open(path, "w") and an unfinished json.dump leave on disk.
TornFile == [torn |-> TRUE]

\* SyncState._load: the document of the file; the empty state when there is
\* no file or json.load raises
SyncState_load(file) == IF file = TornFile THEN EmptyState ELSE file

\* (mutant) save merges: the entries already in the file stay as they are
SyncState_saveKeepingFile(file, data) ==
    LET old == IF file = TornFile THEN EmptyState ELSE file
    IN  [events |-> [k \in DOMAIN old.events \cup DOMAIN data.events |->
                        IF k \in DOMAIN old.events THEN old.events[k] ELSE data.events[k]],
         google_ids |-> [k \in DOMAIN old.google_ids \cup DOMAIN data.google_ids |->
                            IF k \in DOMAIN old.google_ids THEN old.google_ids[k]
                            ELSE data.google_ids[k]]]

\* SyncState.save: the file after json.dump(self.data, f), whatever it held
SyncState_save(file, data) == data

NoHash == <<>>
NoId == 0

\* SyncState.get_event_hash / get_google_id
get_event_hash(st, key) == IF key \in DOMAIN st.events THEN st.events[key] ELSE NoHash
get_google_id(st, key) == IF key \in DOMAIN st.google_ids THEN st.google_ids[key] ELSE NoId

\* SyncState.set_event_hash
set_event_hash(st, key, content_hash, google_id) ==
    [events |-> Put(st.events, key, content_hash),
     google_ids |-> Put(st.google_ids, key, google_id)]

\* SyncState.remove_event
remove_event(st, key) ==
    [events |-> Drop(st.events, key), google_ids |-> Drop(st.google_ids, key)]

\* SyncState.get_all_keys
get_all_keys(st) == DOMAIN st.events

NoStats == [created |-> 0, updated |-> 0, skipped |-> 0, deleted |-> 0, failed |-> 0]

\* stats[action] += 1
Count(st, action) == [st EXCEPT ![action] = @ + 1]

-----------------------------------------------------------------------------
(* Parked values: each specification below drives one group of variables   *)
(* and leaves the others at these values.                                  *)

KeyParked ==
    /\ kpc = "off" /\ kcomp = NoDt /\ kev = NoDt /\ kitem = NoDt
    /\ klocal = NoText /\ kremote = NoText /\ kresult = NoText

LoadParked ==
    /\ lpc = "off" /\ lcomps = <<>> /\ levents = <<>>

DupParked ==
    /\ dpc = "off" /\ apply = FALSE /\ dstate = EmptyState /\ devents = <<>>
    /\ dup_info = EmptyMap /\ dtodo = <<>> /\ dstats = <<>> /\ dcalls = {}

RaceParked == me = 0 /\ other = <<>> /\ raced = {}

QuarParked ==
    /\ qpc = "off" /\ qexport = <<>> /\ qfile = <<>> /\ quarantined = {} /\ outlook = <<>>
    /\ google = <<>> /\ qtodo = <<>>
    /\ queue = <<>> /\ qstats = <<>> /\ qcalls = {} /\ qremote = {}

HashParked == hpc = "off" /\ hleft = <<>> /\ hright = <<>> /\ hhash = <<>>

SerParked == spc = "off" /\ scal = <<>> /\ sexpanded = <<>> /\ sevents = <<>>

\* no export file in the outbox, no health file, and a cycle that has not read its export
NoExport == [exists |-> FALSE, blank |-> TRUE, sections |-> <<>>]
NoHealth == [written |-> FALSE, status |-> "none", last_error |-> "none"]
NotParsed == [nonempty |-> FALSE, sections |-> 0, failed |-> 0, expanded |-> 0]

CalParked ==
    /\ cpc = "off" /\ export_file = NoExport /\ cremote = {} /\ cnext_id = 1
    /\ existing_google_events = <<>> /\ all_expanded_events = <<>>
    /\ outlook_uids_in_range = {} /\ processed_uids_this_run = {} /\ orphan_uids = {}
    /\ errors_encountered = <<>> /\ last_sync_success = FALSE /\ consecutive_failures = 0
    /\ events_created = 0 /\ events_updated = 0 /\ events_deleted = 0
    /\ health_file = NoHealth /\ cstate_file = <<>> /\ ccalls = {} /\ cparsed = NotParsed

BoParked ==
    /\ bpc = "off" /\ script = <<>> /\ attempt = 0 /\ backoff = 0
    /\ slept = <<>> /\ outcome = "none"

RunParked ==
    /\ pc = "off" /\ force_full = FALSE /\ state_data = EmptyState /\ local_events = EmptyMap
    /\ google_events = EmptyMap /\ stats = NoStats /\ processed_google_ids = {}
    /\ todo = <<>> /\ orphan_todo = {} /\ exit_code = -1

ObsParked ==
    /\ calls = {} /\ confirmed = {} /\ visited = {} /\ run_start_file = EmptyState
    /\ steady = FALSE /\ clean = FALSE /\ tampered = FALSE /\ runs = 0

EnvParked ==
    /\ remote = {} /\ next_id = 1 /\ state_file = EmptyState

-----------------------------------------------------------------------------
(* The forms in which the remote may print an instant, and whether it      *)
(* assigns its own iCalUID to an event inserted without one.               *)

EchoForms ==
    {[z |-> TRUE, off |-> 0], [z |-> FALSE, off |-> 0],
     [z |-> FALSE, off |-> -300], [z |-> FALSE, off |-> -240]}

-----------------------------------------------------------------------------
(* Specification SpecKey: one source occurrence goes through               *)
(* load_local_events, is inserted, comes back through fetch_google_events, *)
(* and is met again by a run that has no state entry for it.               *)

KeyUids == {<<"S", "1">>}
KeyHours == {0, 9, 23}
KeyOffsets == {-300, 0, 330}
KeyDay == 5

KeyStarts ==
    {MkDate(KeyDay)}
    \cup {MkDateTime(KeyDay, h, 0, 0, TRUE, o) : h \in KeyHours, o \in KeyOffsets}
    \cup {MkDateTime(KeyDay, h, 0, 0, FALSE, 0) : h \in KeyHours}

KeyEnds(s) ==
    {NoDt} \cup (IF IsDate(s) THEN {MkDate(s.day + 1)}
                 ELSE {PlusMinutes(s, 60), PlusDays(s, 1), PlusDays(s, 2)})

KeyLocations == {"", "HQ"}

KeyComponents ==
    {MkComp(u, f, s, e, "standup", l, NoText) :
        u \in KeyUids, f \in BOOLEAN, s \in KeyStarts, e \in UNION {KeyEnds(x) : x \in KeyStarts},
        l \in KeyLocations}

InitKey ==
    /\ kpc = "input"
    /\ kcomp \in {c \in KeyComponents : c.dtend \in KeyEnds(c.dtstart)}
    /\ kev = NoDt /\ kitem = NoDt /\ klocal = NoText /\ kremote = NoText /\ kresult = NoText
    /\ echo \in EchoForms
    /\ native_uid \in BOOLEAN
    /\ EnvParked /\ BoParked /\ RunParked /\ ObsParked /\ LoadParked /\ DupParked /\ RaceParked /\ QuarParked /\ HashParked /\ SerParked /\ CalParked

\* load_local_events on the occurrence
KLoad ==
    /\ kpc = "input"
    /\ ~Skipped(kcomp)
    /\ kev' = LocalEvent(kcomp).ev
    /\ klocal' = LocalEvent(kcomp).key
    /\ kpc' = "loaded"
    /\ UNCHANGED <<kcomp, kitem, kremote, kresult, boVars, loadVars, raceVars, quarVars, hashVars, serVars, calVars, dupVars, envVars, runVars, obsVars>>

\* upsert_event's insert of build_event_body(ev); the remote stores it
KInsert ==
    /\ kpc = "loaded"
    /\ kitem' = RemoteEcho(1, build_event_body(kev, TIMEZONE), kev, echo, native_uid)
    /\ kpc' = "inserted"
    /\ UNCHANGED <<kcomp, kev, klocal, kremote, kresult, boVars, loadVars, raceVars, quarVars, hashVars, serVars, calVars, dupVars, envVars, runVars, obsVars>>

\* fetch_google_events indexes the remote's echo
KFetch ==
    /\ kpc = "inserted"
    /\ kremote' = RemoteKey(kitem)
    /\ kpc' = "done"
    /\ UNCHANGED <<kcomp, kev, kitem, klocal, kresult, boVars, loadVars, raceVars, quarVars, hashVars, serVars, calVars, dupVars, envVars, runVars, obsVars>>

\* C3 (identity stability): the key load_local_events computes for an
\* occurrence equals the key fetch_google_events computes for the remote's
\* echo of that occurrence, whatever offset or "Z" form the echo is in.
C3_IdentityStable == kpc = "done" => klocal = kremote

-----------------------------------------------------------------------------
(* request_with_backoff.  A response is what one req.execute() ends in:    *)
(* status 200 (returns), an HttpError with a status and a reason, or       *)
(* status 0: an exception that is not an HttpError (socket error, ...).    *)

Resp(status, reason) == [status |-> status, reason |-> reason]

Ok == Resp(200, "")
NetErr == Resp(0, "")

Responses ==
    {Ok, NetErr, Resp(429, ""), Resp(403, "rateLimitExceeded"),
     Resp(403, "userRateLimitExceeded"), Resp(403, "forbidden"), Resp(400, ""),
     Resp(404, ""), Resp(409, ""), Resp(410, ""), Resp(500, ""), Resp(503, "")}

IsHttpError(r) == r.status >= 300

\* is_rate_limit_error
is_rate_limit_error(r) ==
    \/ r.status = 429
    \/ r.status = 403 /\ r.reason \in {"rateLimitExceeded", "userRateLimitExceeded"}

MAX_ATTEMPTS == 5
BACKOFF_START == 1
BACKOFF_CAP == 30

\* (mutant) one more attempt than the budget
BackoffRetriesOneMore(r, a, max_attempts) ==
    IF IsHttpError(r) THEN is_rate_limit_error(r) /\ a <= max_attempts
    ELSE a <= max_attempts

\* the conditions `attempt < max_attempts` of the two except clauses: whether
\* the call goes round the loop again after response r to execution a
BackoffRetries(r, a, max_attempts) ==
    IF IsHttpError(r) THEN is_rate_limit_error(r) /\ a < max_attempts
    ELSE a < max_attempts

BackoffTurn(st, r, max_attempts) ==
    LET a == st.attempt + 1
    IN  IF r = Ok THEN [st EXCEPT !.attempt = a, !.result = "returned", !.resp = r]
        ELSE IF BackoffRetries(r, a, max_attempts)
             THEN [st EXCEPT !.attempt = a, !.resp = r,
                             !.sleeps = Append(st.sleeps, st.backoff),
                             !.backoff = Min(st.backoff * 2, BACKOFF_CAP)]
             ELSE [st EXCEPT !.attempt = a, !.result = "raised", !.resp = r]

BackoffStart ==
    [attempt |-> 0, backoff |-> BACKOFF_START, sleeps |-> <<>>, result |-> "running", resp |-> Ok]

\* request_with_backoff against a remote that answers the successive
\* executions of the request with rs[1], rs[2], ...; a call still running
\* when rs is used up is answered with the last response again.
RECURSIVE RunBackoff(_, _, _)
RunBackoff(st, rs, max_attempts) ==
    IF st.result # "running" THEN st
    ELSE RunBackoff(BackoffTurn(st, rs[1], max_attempts),
                    IF Len(rs) > 1 THEN Tail(rs) ELSE rs, max_attempts)

request_with_backoff(rs) == RunBackoff(BackoffStart, rs, MAX_ATTEMPTS)

-----------------------------------------------------------------------------
(* Specification SpecBackoff: one call of request_with_backoff, turn by    *)
(* turn, against every sequence of responses.                              *)

InitBackoff ==
    /\ bpc = "running" /\ script = <<>> /\ attempt = 0 /\ backoff = BACKOFF_START
    /\ slept = <<>> /\ outcome = "running"
    /\ echo \in {[z |-> TRUE, off |-> 0]} /\ native_uid = FALSE
    /\ KeyParked /\ EnvParked /\ RunParked /\ ObsParked /\ LoadParked /\ DupParked /\ RaceParked /\ QuarParked /\ HashParked /\ SerParked /\ CalParked

\* `script` records the responses received so far
BTurn ==
    /\ bpc = "running"
    /\ \E r \in Responses :
         LET st == BackoffTurn([attempt |-> attempt, backoff |-> backoff, sleeps |-> slept,
                                result |-> "running", resp |-> Ok], r, MAX_ATTEMPTS)
         IN  /\ script' = Append(script, r)
             /\ attempt' = st.attempt
             /\ backoff' = st.backoff
             /\ slept' = st.sleeps
             /\ outcome' = st.result
             /\ bpc' = IF st.result = "running" THEN "running" ELSE "done"
    /\ UNCHANGED <<keyVars, loadVars, dupVars, raceVars, quarVars, hashVars, serVars, calVars, envVars, runVars, obsVars>>

NextBackoff == BTurn

SpecBackoff == InitBackoff /\ [][NextBackoff]_vars

\* the responses the specification calls transient
IsTransient(r) == is_rate_limit_error(r) \/ (r.status >= 500 /\ r.status <= 599)

\* C10 (retry coverage): a call that receives a rate-limit response or a
\* 5xx is retried until it succeeds or the attempt budget is used up: it
\* never raises on a transient response with attempts left.
C10_TransientRetried ==
    (bpc = "done" /\ outcome = "raised" /\ IsTransient(script[Len(script)]))
        => attempt = MAX_ATTEMPTS

\* the base of the i-th wait of a call: 1, 2, 4, ... capped at 30
RECURSIVE DoubledBase(_)
DoubledBase(i) == IF i = 1 THEN 1 ELSE Min(2 * DoubledBase(i - 1), 30)

\* C11 (bounded retries): whatever the remote answers, the request is
\* executed at most max_attempts (5) times, after which the call has
\* returned or raised; the base of the wait doubles from one retry to the
\* next and never exceeds the 30-second cap.
C11_BoundedRetries ==
    /\ attempt <= 5
    /\ Len(script) = attempt
    /\ attempt = 5 => (bpc = "done" /\ outcome \in {"returned", "raised"})
    /\ bpc = "done" <=> outcome \in {"returned", "raised"}
    /\ Len(slept) = (IF bpc = "done" THEN attempt - 1 ELSE attempt)
    /\ \A i \in 1..Len(slept) : slept[i] = DoubledBase(i) /\ slept[i] <= 30
    /\ backoff = DoubledBase(Len(slept) + 1) /\ backoff <= 30
    \* with a budget large enough for the cap to apply
    /\ RunBackoff(BackoffStart, <<Resp(429, "")>>, 8).sleeps = <<1, 2, 4, 8, 16, 30, 30>>

\* four retries, then the fifth execution ends the call
C11_Witness ==
    /\ bpc = "done" /\ attempt = 5 /\ outcome = "raised"
    /\ slept = <<1, 2, 4, 8>>
    /\ \E i \in 1..Len(script) : script[i] = NetErr


-----------------------------------------------------------------------------
(* The remote calendar: a set of entities.  A call is recorded as          *)
(* [op, key, id, resp]: the operation, the local key it was made for, the  *)
(* entity id it addressed and the response request_with_backoff ended in.  *)

Call(op, key, id, resp) == [op |-> op, key |-> key, id |-> id, resp |-> resp]

R400 == Resp(400, "")
R404 == Resp(404, "")
R409 == Resp(409, "")
R410 == Resp(410, "")
R429 == Resp(429, "")
R500 == Resp(500, "")

\* What the remote answers to the successive executions of one request:
\* at once, after one rate-limit response, or never (the last response
\* repeats until request_with_backoff gives up).
InsertScripts == {<<Ok>>, <<R429, Ok>>, <<R429>>, <<R400>>, <<R409>>}
PresentScripts == {<<Ok>>, <<R429>>, <<R500>>}
GoneScripts == {<<R404>>, <<R410>>, <<R429>>}
ListScripts == {<<Ok>>, <<NetErr, Ok>>, <<R500>>}

Present(rem, id) == \E e \in rem : e.id = id

\* patch and delete address an entity by id: the remote answers not-found
\* or gone exactly when it holds no such entity
ByIdScripts(rem, id) == IF Present(rem, id) THEN PresentScripts ELSE GoneScripts

RECURSIVE Perms(_)
Perms(S) ==
    IF S = {} THEN {<<>>}
    ELSE UNION {{<<x>> \o p : p \in Perms(S \ {x})} : x \in S}

\* events.list(orderBy = "startTime"): the entities by start instant, those
\* with equal starts in any order
ListOrders(rem) ==
    {p \in Perms(rem) : \A i \in 1..Len(p) : \A j \in i..Len(p) : p[i].at <= p[j].at}

\* fetch_google_events: events_by_key[key] = item, item by item
RECURSIVE IndexItems(_)
IndexItems(items) ==
    IF items = <<>> THEN EmptyMap
    ELSE LET n == Len(items)
             before == IndexItems(SubSeq(items, 1, n - 1))
             key == RemoteKey(items[n])
         IN  IF key = NoText THEN before ELSE Put(before, key, items[n])

-----------------------------------------------------------------------------
(* upsert_event                                                            *)

\* body.get("transparency")
BodyTransparency(body) == IF body.transparency = Absent THEN None ELSE body.transparency

\* the if/elif chain that sets needs_update
NeedsUpdate(body, existing) ==
    \/ body.summary # Get(existing.summary, "")
    \/ body.location # Get(existing.location, "")
    \/ BodyTransparency(body) # Get(existing.transparency, "opaque")
    \/ body.start # existing.start
    \/ body.end # existing.end

\* events.patch: the fields of the body replace the entity's; the native
\* iCalUID stays
Patched(old, body, ev, form) ==
    [RemoteEcho(old.id, body, ev, form, FALSE) EXCEPT !.iCalUID = old.iCalUID]

\* (mutant) a patch that is answered not-found fails like any other
PatchNotFoundNever(r) == FALSE

\* `if e.resp.status == 404: pass`: the patch falls through to the insert
PatchNotFound(r) == IsHttpError(r) /\ r.status = 404

\* (mutant) an insert that raised is reported like one that returned
InsertFailureCreated(r) == "created"

\* what upsert_event returns for a request that raised
InsertFailure(r) == IF IsHttpError(r) /\ r.status = 409 THEN "skipped" ELSE "failed"

\* The insert half of upsert_event (the second try block).
InsertEvent(ev, body, key, irs, rem, nid, form, native, sofar) ==
    LET r == request_with_backoff(irs)
    IN  IF r.result = "returned"
        THEN [action |-> "created", google_id |-> nid,
              remote |-> rem \cup {RemoteEcho(nid, body, ev, form, native)},
              next_id |-> nid + 1,
              calls |-> sofar \cup {Call("insert", key, nid, Ok)}]
        ELSE [action |-> InsertFailure(r.resp), google_id |-> NoId,
              remote |-> rem, next_id |-> nid,
              calls |-> sofar \cup {Call("insert", key, NoId, r.resp)}]

\* upsert_event(ev, body, existing, key): `existing` is a set, empty for
\* None.  prs and irs are the remote's answers to the patch and to the
\* insert; rem and nid the remote's entities and its next free id.
upsert_event(ev, body, existing, key, prs, irs, rem, nid, form, native) ==
    IF existing # {}
    THEN LET x == CHOOSE e \in existing : TRUE
             r == request_with_backoff(prs)
             patch == Call("patch", key, x.id, r.resp)
         IN  IF ~NeedsUpdate(body, x)
             THEN [action |-> "skipped", google_id |-> x.id, remote |-> rem,
                   next_id |-> nid, calls |-> {}]
             ELSE IF r.result = "returned"
             THEN [action |-> "updated", google_id |-> x.id,
                   remote |-> {IF e.id = x.id THEN Patched(e, body, ev, form) ELSE e : e \in rem},
                   next_id |-> nid, calls |-> {patch}]
             ELSE IF PatchNotFound(r.resp)
             THEN InsertEvent(ev, body, key, irs, rem, nid, form, native, {patch})
             ELSE [action |-> "failed", google_id |-> NoId, remote |-> rem,
                   next_id |-> nid, calls |-> {patch}]
    ELSE InsertEvent(ev, body, key, irs, rem, nid, form, native, {})

\* A run without a state entry for the occurrence meets the remote's echo
\* of it: the upsert loop's turn for the key, with `existing` the echo and
\* no stored hash.
KUpsert ==
    /\ kpc = "done"
    /\ kresult' = upsert_event(kev, build_event_body(kev, TIMEZONE), {kitem}, klocal,
                               <<Ok>>, <<Ok>>, {kitem}, 2, echo, native_uid)
    /\ kpc' = "upserted"
    /\ UNCHANGED <<kcomp, kev, kitem, klocal, kremote, boVars, loadVars, raceVars, quarVars, hashVars, serVars, calVars, dupVars, envVars, runVars, obsVars>>

NextKey == KLoad \/ KInsert \/ KFetch \/ KUpsert

SpecKey == InitKey /\ [][NextKey]_vars

-----------------------------------------------------------------------------
(* Specification Spec: safe_sync runs, one after the other, against one    *)
(* remote calendar and one state file.                                     *)

MaxRuns == 2

UidA == <<"A">>
UidB == <<"B">>

\* The export holds a timed meeting (09:00-05:00, one hour), whose title
\* may change, and an all-day event with a location, whose description
\* may change.
CompA1 == MkComp(UidA, FALSE, MkDateTime(5, 9, 0, 0, TRUE, -300), NoDt, "standup", "", NoText)
CompA2 == MkComp(UidA, FALSE, MkDateTime(5, 9, 0, 0, TRUE, -300), NoDt, "retro", "", NoText)
CompB == MkComp(UidB, FALSE, MkDate(5), MkDate(6), "holiday", "HQ", NoText)
CompB2 == MkComp(UidB, FALSE, MkDate(5), MkDate(6), "holiday", "HQ", <<"c", "a", "k", "e">>)

\* What recurring_ical_events may expand the export to; <<>> is a missing,
\* unparseable or empty export.
Sources == {<<>>, <<CompA1>>, <<CompA2>>, <<CompA1, CompB>>, <<CompB2>>}

MainEchoForms == {[z |-> TRUE, off |-> 0]}

\* An entity that was put on the calendar by other means (an ICS import, an
\* earlier tool) for the occurrence of component c: it carries the source
\* UID as its native iCalUID and no private tags.
Imported(id, c, form) ==
    LET ev == LocalEvent(c).ev
    IN  [RemoteEcho(id, build_event_body(ev, TIMEZONE), ev, form, FALSE)
            EXCEPT !.iCalUID = c.uid, !.icalUID = NoText, !.source = Absent]

FirstFreeId == 3

InitialRemotes(form) == {{}, {Imported(1, CompB, form), Imported(2, CompA1, form)}}

Init ==
    /\ echo \in MainEchoForms
    /\ native_uid \in BOOLEAN
    /\ remote \in InitialRemotes(echo)
    /\ next_id = FirstFreeId
    /\ state_file = EmptyState
    /\ pc = "idle"
    /\ force_full \in BOOLEAN
    /\ state_data = EmptyState /\ local_events = EmptyMap /\ google_events = EmptyMap
    /\ stats = NoStats /\ processed_google_ids = {} /\ todo = <<>> /\ orphan_todo = {}
    /\ exit_code = -1
    /\ calls = {} /\ confirmed = {} /\ visited = {} /\ run_start_file = EmptyState
    /\ steady = FALSE /\ clean = FALSE /\ tampered = FALSE /\ runs = 0
    /\ KeyParked /\ BoParked /\ LoadParked /\ DupParked /\ RaceParked /\ QuarParked /\ HashParked /\ SerParked /\ CalParked

\* the keys of local_events in dict order: the order of first insertion
RECURSIVE KeyOrder(_)
KeyOrder(comps) ==
    IF comps = <<>> THEN <<>>
    ELSE LET n == Len(comps)
             before == KeyOrder(SubSeq(comps, 1, n - 1))
             key == LocalEvent(comps[n]).key
         IN  IF Skipped(comps[n]) \/ \E i \in 1..Len(before) : before[i] = key
             THEN before ELSE Append(before, key)

\* (mutant) the run goes on with nothing parsed
AbortsRunNever(loaded) == FALSE

\* `if not local_events: sys.exit(1)`
AbortsRun(loaded) == DOMAIN loaded = {}

AllOk(cs) == \A c \in cs : c.resp = Ok

\* (mutant) a failed key ends the run on the spot
AfterUpsertStopOnFailure(action, rest) ==
    IF action = "failed" THEN "exited" ELSE IF rest = <<>> THEN "orphans" ELSE "upsert"

\* where main goes after one key of the upsert loop, whatever its outcome
\* ("begin" before the first key): on to the next key, or to the orphan pass
AfterUpsert(action, rest) == IF rest = <<>> THEN "orphans" ELSE "upsert"

\* main, from SyncState(STATE_PATH) to the end of fetch_google_events:
\* load the state file, parse the export, abort when nothing was parsed,
\* else list the remote page by page; a page that fails ends the scan with
\* the items of the pages before it.
BeginWith(exports) ==
    /\ pc \in {"idle", "exited", "killed"}
    /\ runs < MaxRuns
    /\ runs' = runs + 1
    /\ \E src \in exports :
         LET loaded == load_local_events(src)
         IN  /\ state_data' = SyncState_load(state_file)
             /\ run_start_file' = SyncState_load(state_file)
             /\ local_events' = loaded
             /\ stats' = NoStats
             /\ processed_google_ids' = {}
             /\ confirmed' = {} /\ visited' = {} /\ clean' = FALSE /\ tampered' = FALSE
             /\ orphan_todo' = IF AbortsRun(loaded) THEN {}
                               ELSE get_all_keys(SyncState_load(state_file)) \ DOMAIN loaded
             /\ IF AbortsRun(loaded)
                THEN /\ pc' = "exited" /\ exit_code' = 1
                     /\ google_events' = EmptyMap /\ todo' = <<>>
                     /\ calls' = {} /\ steady' = FALSE
                ELSE \E items \in ListOrders(remote) : \E rs \in ListScripts :
                       LET r == request_with_backoff(rs)
                       IN  \E n \in (IF r.result = "returned" THEN {Len(items)}
                                     ELSE 0..Len(items)) :
                             /\ google_events' = IndexItems(SubSeq(items, 1, n))
                             /\ calls' = {Call("list", NoText, NoId, r.resp)}
                             /\ steady' = (/\ pc = "exited" /\ clean
                                           /\ loaded = local_events
                                           /\ ~force_full
                                           /\ r.result = "returned")
                             /\ pc' = AfterUpsert("begin", KeyOrder(src))
                             /\ exit_code' = -1
                             /\ todo' = KeyOrder(src)
    /\ UNCHANGED <<keyVars, boVars, loadVars, quarVars, hashVars, serVars, calVars, dupVars, envVars, force_full>>

Begin == BeginWith(Sources) /\ UNCHANGED raceVars

\* the lookup of `existing` in the upsert loop: by key, else by stored id
FindExisting(key, st, index) ==
    IF key \in DOMAIN index THEN {index[key]}
    ELSE IF get_google_id(st, key) # NoId
         THEN {index[k] : k \in {j \in DOMAIN index : index[j].id = get_google_id(st, key)}}
         ELSE {}

\* (mutant) the hash comparison inverted
ShouldSkipInverted(existing, stored_hash, content_hash, force) ==
    existing # {} /\ stored_hash # content_hash /\ ~force

\* (mutant) the stored hash alone decides
ShouldSkipStale(existing, stored_hash, content_hash, force) ==
    stored_hash = content_hash /\ ~force

\* `if existing and stored_hash == content_hash and not FORCE_FULL_SYNC`
ShouldSkip(existing, stored_hash, content_hash, force) ==
    existing # {} /\ stored_hash = content_hash /\ ~force

Ids(existing) == {e.id : e \in existing}

\* (mutant) the entry is written whatever upsert_event returned
StateAfterAlways(st, key, content_hash, google_id) ==
    set_event_hash(st, key, content_hash, google_id)

\* `if google_id: state.set_event_hash(key, content_hash, google_id)`
StateAfter(st, key, content_hash, google_id) ==
    IF google_id # NoId THEN set_event_hash(st, key, content_hash, google_id) ELSE st

\* One turn of `for key, ev in local_events.items()`.
UpsertOne ==
    /\ pc = "upsert" /\ todo # <<>>
    /\ LET key == Head(todo)
           rest == Tail(todo)
           ev == local_events[key]
           content_hash == compute_event_hash(ev)
           stored_hash == get_event_hash(state_data, key)
           existing == FindExisting(key, state_data, google_events)
           body == build_event_body(ev, TIMEZONE)
       IN  /\ todo' = rest
           /\ visited' = visited \cup {key}
           /\ IF ShouldSkip(existing, stored_hash, content_hash, force_full)
              THEN /\ stats' = Count(stats, "skipped")
                   /\ processed_google_ids' = processed_google_ids \cup Ids(existing)
                   /\ pc' = AfterUpsert("skipped", rest)
                   /\ orphan_todo' = get_all_keys(state_data) \ DOMAIN local_events
                   /\ UNCHANGED <<state_data, remote, next_id, calls, confirmed>>
              ELSE \E prs \in (IF existing = {} THEN {<<Ok>>}
                               ELSE ByIdScripts(remote, CHOOSE i \in Ids(existing) : TRUE)) :
                   \E irs \in (IF existing = {} \/ request_with_backoff(prs).resp = R404
                               THEN InsertScripts ELSE {<<Ok>>}) :
                     LET u == upsert_event(ev, body, existing, key, prs, irs,
                                           remote, next_id, echo, native_uid)
                         st == StateAfter(state_data, key, content_hash, u.google_id)
                     IN  /\ stats' = Count(stats, u.action)
                         /\ state_data' = st
                         /\ processed_google_ids' =
                                processed_google_ids \cup Ids(existing)
                                    \cup (IF u.google_id # NoId THEN {u.google_id} ELSE {})
                         /\ remote' = u.remote
                         /\ next_id' = u.next_id
                         /\ calls' = calls \cup u.calls
                         /\ confirmed' = IF u.action \in {"created", "updated"}
                                         THEN confirmed \cup {key} ELSE confirmed
                         /\ pc' = AfterUpsert(u.action, rest)
                         /\ orphan_todo' = get_all_keys(st) \ DOMAIN local_events
    /\ UNCHANGED <<keyVars, boVars, loadVars, raceVars, quarVars, hashVars, serVars, calVars, dupVars, echo, native_uid, state_file, force_full, local_events,
                   google_events, exit_code, run_start_file, steady, clean, tampered, runs>>

\* what the orphan loop does with the outcome of events.delete
DeleteCounts(r) == r.result = "returned" \/ (IsHttpError(r.resp) /\ r.resp.status = 410)

\* One turn of `for key in orphan_keys` (a set: any order).
OrphanOne ==
    /\ pc = "orphans" /\ orphan_todo # {}
    /\ DELETE_ORPHANS
    /\ \E key \in orphan_todo :
         LET google_id == get_google_id(state_data, key)
             found == {google_events[k] :
                         k \in {j \in DOMAIN google_events : google_events[j].id = google_id}}
         IN  /\ orphan_todo' = orphan_todo \ {key}
             /\ visited' = visited \cup {key}
             /\ state_data' = remove_event(state_data, key)
             /\ IF google_id # NoId /\ found # {} /\ \A e \in found : is_our_event(e)
                THEN \E rs \in ByIdScripts(remote, google_id) :
                       LET r == request_with_backoff(rs)
                       IN  /\ calls' = calls \cup {Call("delete", key, google_id, r.resp)}
                           /\ remote' = IF r.result = "returned"
                                        THEN {e \in remote : e.id # google_id}
                                        ELSE remote
                           /\ stats' = IF DeleteCounts(r) THEN Count(stats, "deleted")
                                       ELSE stats
                ELSE UNCHANGED <<calls, remote, stats>>
    /\ UNCHANGED <<keyVars, boVars, loadVars, raceVars, quarVars, hashVars, serVars, calVars, dupVars, next_id, echo, native_uid, state_file, pc, force_full,
                   local_events, google_events, processed_google_ids, todo, exit_code,
                   confirmed, run_start_file, steady, clean, tampered, runs>>

\* (mutant) the exit code ignores the failure count
ExitCodeAlwaysZero(st) == 0

\* `if stats["failed"] > 0: sys.exit(1)`
ExitCode(st) == IF st.failed > 0 THEN 1 ELSE 0

\* state.save(), the summary and the exit code
Finish ==
    /\ pc = "orphans" /\ orphan_todo = {}
    /\ state_file' = SyncState_save(state_file, state_data)
    /\ exit_code' = ExitCode(stats)
    /\ clean' = (AllOk(calls) /\ ~tampered)
    /\ pc' = "exited"
    /\ UNCHANGED <<keyVars, boVars, loadVars, raceVars, quarVars, hashVars, serVars, calVars, dupVars, remote, next_id, echo, native_uid, force_full, state_data,
                   local_events, google_events, stats, processed_google_ids, todo,
                   orphan_todo, calls, confirmed, visited, run_start_file, steady, tampered,
                   runs>>

\* The process is terminated in the middle of a run: what it held in
\* memory is gone, the remote and the state file stay as they are.
Crash ==
    /\ pc \in {"upsert", "orphans"}
    /\ pc' = "killed"
    /\ state_data' = EmptyState /\ local_events' = EmptyMap /\ google_events' = EmptyMap
    /\ stats' = NoStats /\ processed_google_ids' = {} /\ todo' = <<>> /\ orphan_todo' = {}
    /\ calls' = {} /\ visited' = {} /\ steady' = FALSE /\ clean' = FALSE
    /\ UNCHANGED <<keyVars, boVars, loadVars, raceVars, quarVars, hashVars, serVars, calVars, dupVars, envVars, force_full, exit_code, confirmed,
                   run_start_file, tampered, runs>>

Next == Begin \/ UpsertOne \/ OrphanOne \/ Finish \/ Crash

Spec == Init /\ [][Next]_vars

-----------------------------------------------------------------------------
(* Specification SpecTamper: runs that go to their end, against a calendar *)
(* that starts empty and on which somebody else deletes entities.          *)

InitTamper ==
    /\ echo \in MainEchoForms
    /\ native_uid \in BOOLEAN
    /\ remote = {}
    /\ next_id = FirstFreeId
    /\ state_file = EmptyState
    /\ pc = "idle"
    /\ force_full = FALSE
    /\ state_data = EmptyState /\ local_events = EmptyMap /\ google_events = EmptyMap
    /\ stats = NoStats /\ processed_google_ids = {} /\ todo = <<>> /\ orphan_todo = {}
    /\ exit_code = -1
    /\ calls = {} /\ confirmed = {} /\ visited = {} /\ run_start_file = EmptyState
    /\ steady = FALSE /\ clean = FALSE /\ tampered = FALSE /\ runs = 0
    /\ KeyParked /\ BoParked /\ LoadParked /\ DupParked /\ RaceParked /\ QuarParked /\ HashParked /\ SerParked /\ CalParked

\* Out of band: somebody deletes an entity on the calendar (in the Google
\* UI, or another tool), between two runs or in the middle of one.  The
\* code meets it as a 404 or 410 to patch and delete, and as a stored id
\* that the listing no longer shows.  A run addresses only entities of its
\* listing, and each at most once, so a deletion in the middle of a run is
\* taken right after the listing (it is met by the call) or after the run
\* (it is not).
OutOfBandDelete ==
    /\ \/ pc \in {"idle", "exited"}
       \/ pc \in {"upsert", "orphans"} /\ visited = {}
    /\ \E e \in remote : remote' = remote \ {e}
    /\ tampered' = (tampered \/ pc \in {"upsert", "orphans"})
    /\ clean' = FALSE
    /\ UNCHANGED <<keyVars, boVars, loadVars, raceVars, quarVars, hashVars, serVars, calVars, dupVars, next_id, echo, native_uid, state_file, runVars, calls,
                   confirmed, visited, run_start_file, steady, runs>>

NextTamper == Begin \/ UpsertOne \/ OrphanOne \/ Finish \/ OutOfBandDelete

SpecTamper == InitTamper /\ [][NextTamper]_vars

-----------------------------------------------------------------------------
(* Specification SpecTorn: runs against a calendar that starts empty, any  *)
(* of which may be terminated while SyncState.save writes the state file.  *)

\* The process is terminated inside SyncState.save, after open(path, "w")
\* has truncated the file and before json.dump and the close have put the
\* whole document on disk.
KillInSave ==
    /\ pc = "orphans" /\ orphan_todo = {}
    /\ state_file' = TornFile
    /\ pc' = "killed"
    /\ state_data' = EmptyState /\ local_events' = EmptyMap /\ google_events' = EmptyMap
    /\ stats' = NoStats /\ processed_google_ids' = {} /\ todo' = <<>> /\ orphan_todo' = {}
    /\ calls' = {} /\ visited' = {} /\ steady' = FALSE /\ clean' = FALSE
    /\ UNCHANGED <<keyVars, boVars, loadVars, raceVars, quarVars, hashVars, serVars, calVars, dupVars, remote, next_id, echo, native_uid, force_full,
                   exit_code, confirmed, run_start_file, tampered, runs>>

NextTorn == Begin \/ UpsertOne \/ OrphanOne \/ Finish \/ KillInSave

SpecTorn == InitTamper /\ [][NextTorn]_vars

\* C22 (atomic state write): whenever the process is terminated, the state
\* file is a complete document, the previous one or the new one: it is
\* never a partial write, which the next load would replace by the empty
\* state.
C22_StateFileNeverTorn == state_file # TornFile

-----------------------------------------------------------------------------
(* Specification SpecRace: two safe_sync processes started on the same     *)
(* calendar and the same state file (two cron jobs, or a manual start      *)
(* while the scheduled one runs).  Nothing in main takes a lock, so the    *)
(* operating system interleaves them between any two statements; one       *)
(* process is on the processor (its variables are the run's variables),    *)
(* the variables of the suspended one are kept in `other`.                 *)

\* the variables of the process on the processor, as one record
Process ==
    [pc |-> pc, force_full |-> force_full, state_data |-> state_data,
     local_events |-> local_events, google_events |-> google_events, stats |-> stats,
     processed_google_ids |-> processed_google_ids, todo |-> todo,
     orphan_todo |-> orphan_todo, exit_code |-> exit_code,
     calls |-> calls, confirmed |-> confirmed, visited |-> visited,
     run_start_file |-> run_start_file, steady |-> steady, clean |-> clean,
     tampered |-> tampered]

InitRace ==
    /\ echo \in MainEchoForms
    /\ native_uid \in BOOLEAN
    /\ remote = {}
    /\ next_id = FirstFreeId
    /\ state_file = EmptyState
    /\ pc = "idle"
    /\ force_full = FALSE
    /\ state_data = EmptyState /\ local_events = EmptyMap /\ google_events = EmptyMap
    /\ stats = NoStats /\ processed_google_ids = {} /\ todo = <<>> /\ orphan_todo = {}
    /\ exit_code = -1
    /\ calls = {} /\ confirmed = {} /\ visited = {} /\ run_start_file = EmptyState
    /\ steady = FALSE /\ clean = FALSE /\ tampered = FALSE /\ runs = 0
    /\ me = 1 /\ other = Process /\ raced = {}
    /\ KeyParked /\ BoParked /\ LoadParked /\ DupParked /\ QuarParked /\ HashParked /\ SerParked /\ CalParked

\* The scheduler takes the processor from one process and gives it to the
\* other.  The remote, the state file and the count of started runs are
\* shared.
Switch ==
    /\ me' = 3 - me
    /\ other' = Process
    /\ pc' = other.pc /\ force_full' = other.force_full /\ state_data' = other.state_data
    /\ local_events' = other.local_events /\ google_events' = other.google_events
    /\ stats' = other.stats /\ processed_google_ids' = other.processed_google_ids
    /\ todo' = other.todo /\ orphan_todo' = other.orphan_todo /\ exit_code' = other.exit_code
    /\ calls' = other.calls /\ confirmed' = other.confirmed /\ visited' = other.visited
    /\ run_start_file' = other.run_start_file /\ steady' = other.steady
    /\ clean' = other.clean /\ tampered' = other.tampered
    /\ UNCHANGED <<raced, keyVars, boVars, loadVars, dupVars, quarVars, hashVars, serVars, calVars, envVars, runs>>

\* The exports the two processes may read: the meeting or the all-day event.
RaceSources == {<<CompA1>>, <<CompB>>}

\* A process starts its run; the other one may be in the middle of its own.
RaceBegin ==
    /\ BeginWith(RaceSources)
    /\ raced' = IF other.pc = "upsert" THEN {other.todo[i] : i \in 1..Len(other.todo)} ELSE {}
    /\ UNCHANGED <<me, other>>

NextRace == RaceBegin \/ UpsertOne \/ OrphanOne \/ Finish \/ Switch

SpecRace == InitRace /\ [][NextRace]_vars

\* the entities on the calendar that carry source UID `uid` in their tags
EntitiesOf(uid) == {e \in remote : e.icalUID = uid}

\* the index `idx` was built when the calendar held no entity of `uid`
Unseen(idx, uid) == \A j \in DOMAIN idx : idx[j].icalUID # uid

InsertedOk(cs, k) == \E c \in cs : c.op = "insert" /\ c.key = k /\ c.resp = Ok

\* the run with calls cs built its index from a complete listing
ScannedOk(cs) == \E c \in cs : c.op = "list" /\ c.resp = Ok

\* a desired key of both processes that neither had processed when the
\* later one listed, and whose occurrence neither listing showed
RacedKeys ==
    {k \in raced \cap DOMAIN local_events \cap DOMAIN other.local_events :
        /\ ScannedOk(calls) /\ ScannedOk(other.calls)
        /\ Unseen(google_events, local_events[k].uid)
        /\ Unseen(other.google_events, local_events[k].uid)}

RaceDuplicates ==
    \A k \in RacedKeys :
        /\ k \in visited => \E c \in calls : c.op = "insert" /\ c.key = k
        /\ k \in other.visited => \E c \in other.calls : c.op = "insert" /\ c.key = k
        /\ (InsertedOk(calls, k) /\ InsertedOk(other.calls, k)) =>
              /\ Cardinality(EntitiesOf(local_events[k].uid)) = 2
              /\ state_data.google_ids[k] # other.state_data.google_ids[k]

\* the step in which the process on the processor saves the state file
LaterWriterWins ==
    (me' = me /\ pc = "orphans" /\ pc' = "exited") =>
        \A k \in DOMAIN state_data.google_ids :
            /\ k \in DOMAIN state_file'.google_ids
            /\ state_file'.google_ids[k] = state_data.google_ids[k]

\* C27 (concurrent runs): when two runs have both built their index before
\* either inserted a desired key, each of them issues an insert for it, and
\* when both inserts succeed the calendar holds two entities for the one
\* occurrence; whichever run saves the state file later puts its own id
\* there, whatever the earlier one wrote.
C27_RaceCreatesDuplicates == [](RaceDuplicates) /\ [][LaterWriterWins]_vars

\* both runs are over, the calendar holds two entities of one occurrence,
\* and the state file refers to the later writer's, not to the other's
C27_Witness ==
    /\ pc = "exited" /\ other.pc = "exited"
    /\ \E k \in RacedKeys :
         /\ InsertedOk(calls, k) /\ InsertedOk(other.calls, k)
         /\ Cardinality(EntitiesOf(local_events[k].uid)) = 2
         /\ k \in DOMAIN state_file.google_ids
         /\ state_file.google_ids[k] # other.state_data.google_ids[k]
         /\ state_file.google_ids[k] = state_data.google_ids[k]

-----------------------------------------------------------------------------
(* Specification SpecLoad: load_local_events on an export of up to         *)
(* MaxComps components, among them occurrences with the same UID and       *)
(* start, and a component without a UID.                                   *)

MaxComps == 3

CompNoUid == MkComp(NoText, FALSE, MkDate(5), MkDate(6), "draft", "", NoText)

LoadComponents == {CompA1, CompA2, CompB, CompNoUid}

InitLoad ==
    /\ lpc = "input"
    /\ lcomps \in UNION {[1..n -> LoadComponents] : n \in 0..MaxComps}
    /\ levents = <<>>
    /\ echo \in MainEchoForms /\ native_uid = FALSE
    /\ KeyParked /\ BoParked /\ EnvParked /\ RunParked /\ ObsParked /\ DupParked /\ RaceParked /\ QuarParked /\ HashParked /\ SerParked /\ CalParked

\* load_local_events, the whole `for comp in expanded` loop
LLoad ==
    /\ lpc = "input"
    /\ levents' = load_local_events(lcomps)
    /\ lpc' = "loaded"
    /\ UNCHANGED <<lcomps, keyVars, dupVars, raceVars, quarVars, hashVars, serVars, calVars, boVars, envVars, runVars, obsVars>>

NextLoad == LLoad

SpecLoad == InitLoad /\ [][NextLoad]_vars

\* the components that are not skipped and map to `key`, by position
WithKey(comps, key) ==
    {i \in 1..Len(comps) : ~Skipped(comps[i]) /\ LocalEvent(comps[i]).key = key}

Lowest(S) == CHOOSE i \in S : \A j \in S : i <= j

\* C19 (duplicate source keys): when several components of one export map
\* to the same key, the instance kept for the key is that of the first of
\* them; the later ones are dropped and the load goes on.
C19_FirstDuplicateWins ==
    lpc = "loaded" =>
        /\ DOMAIN levents = {LocalEvent(lcomps[i]).key :
                                i \in {j \in 1..Len(lcomps) : ~Skipped(lcomps[j])}}
        /\ \A key \in DOMAIN levents :
             levents[key] = LocalEvent(lcomps[Lowest(WithKey(lcomps, key))]).ev

-----------------------------------------------------------------------------
(* Claims about the run                                                    *)

Mutating(c) == c.op \in {"insert", "patch", "delete"}

Running == pc \in {"upsert", "orphans", "exited"}

\* a run that went through state.save() (not one that aborted on an empty parse)
Finished == pc = "exited" /\ DOMAIN local_events # {}

\* C1 (idempotence): in a run that follows a run in which every operation
\* succeeded, with the same source, the remote as that run left it and the
\* state file it wrote, no insert, patch or delete is issued and every
\* desired key is counted as skipped.
C1_SecondRunAllSkip ==
    (Running /\ steady) =>
        /\ \A c \in calls : ~Mutating(c)
        /\ Finished => stats.skipped = Cardinality(DOMAIN local_events)

\* the entity carries extendedProperties.private.source = "calendarbridge"
HasMarker(e) == e.source = "calendarbridge"

\* C2 (delete safety): whenever a delete call is issued, the remote entity
\* it addresses carries the private marker source=calendarbridge.
C2_DeleteOnlyMarked ==
    [][\A c \in calls' \ calls :
          c.op = "delete" => \A e \in remote : e.id = c.id => HasMarker(e)]_vars

\* an orphan key whose stored id names an unmarked remote entity was
\* processed, and the entity is still there
C2_Witness ==
    /\ Finished
    /\ \E k \in visited \ DOMAIN local_events :
         \E e \in remote : /\ e.id = get_google_id(run_start_file, k)
                           /\ ~HasMarker(e)
                           /\ k \notin get_all_keys(state_file)

\* C4 (crash consistency): when a run is terminated, the state file holds an
\* entry for every key whose remote create or update was confirmed before.
C4_FileHoldsConfirmed ==
    pc = "killed" => \A k \in confirmed : k \in get_all_keys(state_file)

\* C5 (total parse failure): a run that parsed nothing exits nonzero, has
\* issued no remote call and has left the state file as it was.
C5_AbortTouchesNothing ==
    (pc \in {"upsert", "orphans", "exited"} /\ DOMAIN local_events = {}) =>
        /\ pc = "exited" /\ exit_code = 1
        /\ calls = {}
        /\ state_file = run_start_file

C5_Witness ==
    /\ pc = "exited" /\ DOMAIN local_events = {} /\ exit_code = 1
    /\ remote # {} /\ get_all_keys(state_file) # {}

\* C6 (failure isolation): a run that ends has processed every desired key
\* and every orphan key, whatever failed on the way.
C6_EveryKeyProcessed ==
    Finished =>
        /\ DOMAIN local_events \subseteq visited
        /\ get_all_keys(run_start_file) \ DOMAIN local_events \subseteq visited

\* the first of two desired keys failed, an orphan delete failed, and the
\* run still went through all keys
C6_Witness ==
    /\ Finished /\ stats.failed >= 1 /\ stats.created >= 1
    /\ Cardinality(DOMAIN local_events) = 2
    /\ DOMAIN local_events \subseteq visited

\* the run found the remote empty and started from an empty state file
EmptyStart ==
    /\ run_start_file = EmptyState
    /\ google_events = EmptyMap
    /\ Call("list", NoText, NoId, Ok) \in calls

Inserts == {c \in calls : c.op = "insert"}

NonRetryable(r) == IsHttpError(r) /\ ~is_rate_limit_error(r)

\* the entry the state file must hold for a successful create
Persisted(c) ==
    /\ c.key \in get_all_keys(state_file)
    /\ get_google_id(state_file, c.key) = c.id
    /\ get_event_hash(state_file, c.key) = compute_event_hash(local_events[c.key])

\* what C7 promises of a run whose inserts in Bad got an error and whose
\* other inserts succeeded
PartialFailureReport(Bad) ==
    LET N == Cardinality(DOMAIN local_events)
        k == Cardinality(Bad)
    IN  /\ stats.created = N - k
        /\ stats.failed = k
        /\ get_all_keys(state_file) = {c.key : c \in Inserts \ Bad}
        /\ \A c \in Inserts \ Bad : Persisted(c)
        /\ (exit_code # 0) <=> (k > 0)

HardFailed(c) == Mutating(c) /\ c.resp \notin {Ok, R404, R409, R410}

\* C8 (exit code): a run exits 0 exactly when no create, update or delete
\* it attempted failed after retries.
C8_ExitCodeTellsFailure ==
    Finished => ((exit_code = 0) <=> ~\E c \in calls : HardFailed(c))

\* C9 (skip costs nothing): a desired key that has a remote entity and whose
\* content hash equals the stored hash, with force-full-sync off, gets no
\* remote call, and its state entry stays as it was.
SkipCase(k) ==
    /\ FindExisting(k, run_start_file, google_events) # {}
    /\ get_event_hash(run_start_file, k) = compute_event_hash(local_events[k])
    /\ ~force_full

C9_SkipCostsNothing ==
    Running =>
        \A k \in visited \cap DOMAIN local_events :
            SkipCase(k) =>
                /\ \A c \in calls : c.key # k
                /\ get_event_hash(state_data, k) = get_event_hash(run_start_file, k)
                /\ get_google_id(state_data, k) = get_google_id(run_start_file, k)
                /\ Finished => /\ get_event_hash(state_file, k) = get_event_hash(run_start_file, k)
                               /\ get_google_id(state_file, k) = get_google_id(run_start_file, k)

C9_Witness ==
    /\ Finished
    /\ \E k \in visited \cap DOMAIN local_events : SkipCase(k)
    /\ stats.skipped >= 1

-----------------------------------------------------------------------------
(* Claims about not-found answers, orphans and stale state                 *)

ListedOk == Call("list", NoText, NoId, Ok) \in calls

Listed == {google_events[k] : k \in DOMAIN google_events}

\* C12 (update demotion): when the patch of an existing entity is answered
\* 404, an insert is issued for the same key; when that insert succeeds the
\* key is counted as created and its state entry records the new id.
C12_PatchNotFoundDemotes ==
    Running =>
        /\ stats.created = Cardinality({d \in calls : d.op = "insert" /\ d.resp = Ok})
        /\ \A c \in calls :
             (c.op = "patch" /\ c.resp = R404) =>
                \E d \in calls :
                    /\ d.op = "insert" /\ d.key = c.key
                    /\ d.resp = Ok =>
                         /\ d.id # c.id
                         /\ c.key \in confirmed
                         /\ get_google_id(state_data, c.key) = d.id
                         /\ get_event_hash(state_data, c.key)
                                = compute_event_hash(local_events[c.key])
                         /\ Finished => get_google_id(state_file, c.key) = d.id

\* the entity was deleted on the calendar after the listing; its patch was
\* answered 404 and the insert that followed succeeded
C12_Witness ==
    /\ Finished /\ tampered /\ ListedOk
    /\ \E c, d \in calls :
         /\ c.op = "patch" /\ c.resp = R404
         /\ d.op = "insert" /\ d.key = c.key /\ d.resp = Ok
         /\ get_google_id(state_file, c.key) = d.id
         /\ get_google_id(run_start_file, c.key) = c.id
    /\ stats.created = 1 /\ stats.failed = 0

\* C13 (idempotent delete): an orphan delete answered 404 or 410 is taken
\* for a successful delete: it is counted as deleted and the state entry of
\* its key is removed.
C13_GoneCountsAsDeleted ==
    Finished =>
        /\ stats.deleted
             = Cardinality({c \in calls : c.op = "delete" /\ c.resp \in {Ok, R404, R410}})
        /\ \A c \in calls :
             (c.op = "delete" /\ c.resp \in {R404, R410}) =>
                c.key \notin get_all_keys(state_file)

\* the run has, for orphan key k, the evidence that its remote entity is no
\* longer there: a delete answered OK, 404 or 410, or a complete listing
\* that does not show the stored id
EntityGone(k) ==
    \/ \E c \in calls : c.op = "delete" /\ c.key = k /\ c.resp \in {Ok, R404, R410}
    \/ ListedOk /\ \A e \in Listed : e.id # get_google_id(run_start_file, k)

\* C14 (state entry removal): a key's state entry is removed by a run only
\* if the key is not desired and its remote entity was deleted or is known
\* to be gone; otherwise (delete failed, listing incomplete) it is kept.
C14_EntryRemovedOnlyWhenGone ==
    Finished =>
        \A k \in get_all_keys(run_start_file) \ get_all_keys(state_file) :
            k \notin DOMAIN local_events /\ EntityGone(k)

\* C15 (delete classification): every managed entity of the listing whose
\* key is not desired gets a delete call in the run, whether or not the
\* state file has an entry for it.
C15_ManagedOrphansDeleted ==
    (Finished /\ ListedOk) =>
        \A e \in Listed :
            (HasMarker(e) /\ RemoteKey(e) \notin DOMAIN local_events) =>
                \E c \in calls : c.op = "delete" /\ c.id = e.id

\* desired key k has a state entry, and the listing shows neither the key
\* nor the stored id
StaleCase(k) ==
    /\ k \in get_all_keys(run_start_file)
    /\ k \notin DOMAIN google_events
    /\ \A e \in Listed : e.id # get_google_id(run_start_file, k)

\* C16 (stale state): a desired key with a state entry whose entity the
\* listing does not show gets an insert, also when the stored hash equals
\* the desired hash; when the insert succeeds the entry holds the new id.
C16_StaleEntryRecreated ==
    Running =>
        \A k \in visited \cap DOMAIN local_events :
            StaleCase(k) =>
                /\ \A c \in calls : c.key = k => c.op = "insert"
                /\ \E c \in calls :
                     /\ c.op = "insert" /\ c.key = k
                     /\ c.resp = Ok =>
                          /\ c.id # get_google_id(run_start_file, k)
                          /\ get_google_id(state_data, k) = c.id
                          /\ get_event_hash(state_data, k) = compute_event_hash(local_events[k])
                          /\ Finished => get_google_id(state_file, k) = c.id

\* the entity was deleted on the calendar between two runs, the source did
\* not change, and the second run created it again
C16_Witness ==
    /\ Finished /\ ListedOk /\ ~force_full
    /\ \E k \in visited \cap DOMAIN local_events :
         /\ StaleCase(k)
         /\ get_event_hash(run_start_file, k) = compute_event_hash(local_events[k])
         /\ \E c \in calls : c.op = "insert" /\ c.key = k /\ c.resp = Ok
                               /\ get_google_id(state_file, k) = c.id
         /\ \A e \in remote : e.id # get_google_id(run_start_file, k)

\* desired key k has a remote entity and a stored hash that differs from
\* the hash of the desired instance
UpdateCase(k) ==
    /\ FindExisting(k, run_start_file, google_events) # {}
    /\ get_event_hash(run_start_file, k) # NoHash
    /\ get_event_hash(run_start_file, k) # compute_event_hash(local_events[k])

\* C17 (update classification): a desired key with a remote entity and a
\* stored hash that differs from the desired hash gets a patch, and the
\* stored hash becomes the new hash only once a write is confirmed.
C17_ChangedHashPatched ==
    Running =>
        \A k \in visited \cap DOMAIN local_events :
            UpdateCase(k) =>
                /\ \E c \in calls : c.op = "patch" /\ c.key = k
                /\ get_event_hash(state_data, k) = compute_event_hash(local_events[k])
                     => \E c \in calls : c.key = k /\ Mutating(c) /\ c.resp = Ok

-----------------------------------------------------------------------------
(* Claims about one occurrence (specification SpecKey)                     *)

\* C18 (no stored hash): a desired key that has a remote entity and no
\* stored hash is compared with the live entity, and when the entity shows
\* the summary, location, start, end and all-day form of the desired
\* instance (here: it is the remote's echo of that instance), timed or
\* all-day, with or without a location, no patch and no insert is issued.
C18_SameFieldsNoCall ==
    kpc = "upserted" => (kresult.action = "skipped" /\ kresult.calls = {})

AtMidnight(dt) == dt.hh = 0 /\ dt.mm = 0 /\ dt.ss = 0

MaxSpanDays == 3

\* the end is later than the start by 1, 2, ... whole days
WholeDaysLater(s, e) ==
    \E n \in 1..MaxSpanDays : UtcMinutes(e) = UtcMinutes(s) + n * 1440

\* C20 (all-day detection): an occurrence is all-day exactly when the
\* whole-day marker is TRUE, or its start is a pure date, or its start and
\* end are both at midnight and a whole number of days (>= 1) apart; every
\* other timed occurrence (09:00 to 10:00, 23:00 to midnight, 09:00 to 09:00
\* the next day, no end) is not.
C20_AllDayDetection ==
    kpc # "input" =>
        (kev.allDay <=>
            \/ kcomp.ms_allday
            \/ IsDate(kcomp.dtstart)
            \/ /\ IsDateTime(kcomp.dtstart) /\ IsDateTime(kcomp.dtend)
               /\ AtMidnight(kcomp.dtstart) /\ AtMidnight(kcomp.dtend)
               /\ WholeDaysLater(kcomp.dtstart, kcomp.dtend))

\* a timed occurrence from midnight to midnight two days later, without the
\* marker, was found all-day
C20_Witness ==
    /\ kpc = "loaded" /\ ~kcomp.ms_allday /\ IsDateTime(kcomp.dtstart)
    /\ kcomp.dtstart.aware /\ kcomp.dtstart.off = -300
    /\ kcomp.dtend = PlusDays(kcomp.dtstart, 2)
    /\ kev.allDay

-----------------------------------------------------------------------------
(* Claims about the remote index                                           *)

\* C21 (remote indexing failure): the upsert and orphan passes never run on
\* the index of a scan that failed: when a list request fails the scan is
\* started again, and the passes see the index of a complete scan.
C21_NoPassOnFailedScan ==
    (pc \in {"upsert", "orphans"} \/ Finished) => ListedOk

\* the managed entities of one source occurrence (sourceUid, start)
ManagedOf(uid, at) == {e \in remote : HasMarker(e) /\ e.icalUID = uid /\ e.at = at}

\* C34 (no duplicates from sequential runs): starting from a remote without
\* managed entities, after any sequence of runs that do not overlap, with
\* failing calls, failing listings and terminated runs among them, no
\* source occurrence has more than one managed remote entity.
C34_SequentialRunsNoDuplicates ==
    \A e \in remote : HasMarker(e) => Cardinality(ManagedOf(e.icalUID, e.at)) <= 1

\* remote entity e shows the content of instance ev: what the calendar
\* echoes for the body built from ev
Shows(e, ev) ==
    LET x == RemoteEcho(e.id, build_event_body(ev, TIMEZONE), ev, echo, native_uid)
    IN  /\ e.summary = x.summary /\ e.location = x.location
        /\ e.description = x.description
        /\ e.start = x.start /\ e.end = x.end

\* C35 (stored hash means converged): at the end of a run, for every key
\* whose state entry holds the hash of the desired instance and the id of
\* an entity that is still on the calendar, that entity shows the
\* instance's summary, location, description, start, end and all-day form.
C35_StoredHashMeansConverged ==
    Finished =>
        \A k \in DOMAIN local_events \cap get_all_keys(state_file) :
            get_event_hash(state_file, k) = compute_event_hash(local_events[k]) =>
                \A e \in remote :
                    e.id = get_google_id(state_file, k) => Shows(e, local_events[k])

\* a turn of the upsert loop whose create or update ended as failed, or
\* whose insert was answered 409
FailedTurn ==
    /\ pc = "upsert" /\ pc' \in {"upsert", "orphans"}
    /\ \/ stats'.failed = stats.failed + 1
       \/ \E c \in calls' \ calls : c.op = "insert" /\ c.resp = R409

\* C37 (failure leaves state untouched): when the create or update for a
\* desired key ends as failed, or an insert is answered 409, the state
\* entry of that key (stored hash and remote id) is what it was before the
\* operation, and no other key's entry is changed.
C37_FailureLeavesStateUntouched ==
    [][FailedTurn => state_data' = state_data]_vars

\* a patch that failed for a key with a state entry, and an insert that was
\* answered 409, in one run
C37_Witness ==
    /\ Running
    /\ \E c \in calls :
         /\ c.op = "patch" /\ c.resp = R500
         /\ get_event_hash(state_data, c.key) # NoHash
    /\ \E c \in calls : c.op = "insert" /\ c.resp = R409

CountedOnce ==
    stats.created + stats.updated + stats.skipped + stats.failed
        = Cardinality(visited \cap DOMAIN local_events)

\* C38 (summary conservation): every desired key that the upsert phase has
\* processed is counted in exactly one of created, updated, skipped and
\* failed, so that at the end of the phase the four add up to the number of
\* desired keys; created and updated count only calls that returned.
C38_SummaryConservation ==
    Running =>
        /\ CountedOnce
        /\ pc \in {"orphans", "exited"} =>
              stats.created + stats.updated + stats.skipped + stats.failed
                  = Cardinality(DOMAIN local_events)
        /\ stats.created = Cardinality({c \in calls : c.op = "insert" /\ c.resp = Ok})
        /\ stats.updated = Cardinality({c \in calls : c.op = "patch" /\ c.resp = Ok})

\* two desired keys, one updated and one for which the insert failed
C38_Witness ==
    /\ pc = "orphans"
    /\ Cardinality(DOMAIN local_events) = 2
    /\ stats.updated = 1 /\ stats.failed = 1
    /\ \E c \in calls : c.op = "insert" /\ c.resp = R400

-----------------------------------------------------------------------------
(* cleanup_duplicates.py.  Its request_with_backoff and is_our_event are   *)
(* copies of safe_sync's, statement for statement, and are modelled by the *)
(* same operators.                                                         *)

\* normalize_start_string
normalize_start_string(start_obj) ==
    LET start_str == IF start_obj.date # NoText THEN start_obj.date ELSE start_obj.dateTime
        rest0 == SplitSecond(start_str, "T")
        rest == IF Contains(rest0, "+") THEN SplitHead(rest0, "+")
                ELSE IF Len(rest0) > 1 /\ Contains(Tail(rest0), "-") THEN SplitHead(rest0, "-")
                ELSE IF rest0 # <<>> /\ rest0[Len(rest0)] = "Z"
                     THEN SubSeq(rest0, 1, Len(rest0) - 1)
                ELSE rest0
    IN  IF start_str = NoText THEN NoText
        ELSE IF ~Contains(start_str, "T") THEN start_str
        ELSE SplitHead(start_str, "T") \o <<"T">> \o Take(rest, 8)

\* make_key_from_event; NoText for None
make_key_from_event(item) ==
    LET ical_uid == IF item.iCalUID # NoText THEN item.iCalUID ELSE item.icalUID
        start_str == normalize_start_string(item.start)
    IN  IF ical_uid = NoText \/ start_str = NoText THEN NoText
        ELSE MakeKey(ical_uid, start_str)

\* load_state: the document of the file, the empty state when there is no
\* file or it cannot be parsed
load_state(file) == IF file = TornFile THEN EmptyState ELSE file

\* the keys of `groups` in dict order: by first appearance in the listing
RECURSIVE GroupOrder(_)
GroupOrder(events) ==
    IF events = <<>> THEN <<>>
    ELSE LET n == Len(events)
             before == GroupOrder(SubSeq(events, 1, n - 1))
             key == make_key_from_event(events[n])
         IN  IF key = NoText \/ \E i \in 1..Len(before) : before[i] = key
             THEN before ELSE Append(before, key)

\* groups[key]: the events of the key, in listing order
Group(events, key) ==
    LET HasKey(e) == make_key_from_event(e) = key
    IN  SelectSeq(events, HasKey)

IdsOf(evs) == [i \in 1..Len(evs) |-> evs[i].id]

SeqRange(q) == {q[i] : i \in 1..Len(q)}

\* "Choose canonical to KEEP": the id of the state file when it is in the
\* group, else the first event of the group that carries the marker, else
\* the first event of the group
ChooseKeep(evs, canonical_state_id) ==
    LET ours == SelectSeq(evs, is_our_event)
    IN  IF canonical_state_id # NoId /\ canonical_state_id \in SeqRange(IdsOf(evs))
        THEN canonical_state_id
        ELSE IF ours # <<>> THEN ours[1].id
        ELSE evs[1].id

\* (mutant) the survivor is deleted with the rest
DeleteIdsAll(ids, keep_id) == ids

\* delete_ids = [i for i in ids if i != keep_id]
DeleteIds(ids, keep_id) ==
    LET Other(i) == i # keep_id
    IN  SelectSeq(ids, Other)

\* analyze_duplicates: dup_info, for the keys with two or more events
analyze_duplicates(events, state) ==
    LET keys == {k \in SeqRange(GroupOrder(events)) : Len(Group(events, k)) > 1}
    IN  [key \in keys |->
            LET evs == Group(events, key)
                keep_id == ChooseKeep(evs, get_google_id(state, key))
            IN  [count_total |-> Len(evs),
                 keep_id |-> keep_id,
                 delete_ids |-> DeleteIds(IdsOf(evs), keep_id),
                 ours_ids |-> IdsOf(SelectSeq(evs, is_our_event))]]

\* the ids delete_duplicates goes through: group by group in dict order,
\* each group's delete_ids in order
RECURSIVE DeleteOrder(_, _)
DeleteOrder(order, info) ==
    IF order = <<>> THEN <<>>
    ELSE (IF Head(order) \in DOMAIN info THEN info[Head(order)].delete_ids ELSE <<>>)
            \o DeleteOrder(Tail(order), info)

-----------------------------------------------------------------------------
(* Specification SpecDup: one run of cleanup_duplicates, dry or with       *)
(* --apply, on a calendar that holds up to three entities of a timed and   *)
(* up to two of an all-day occurrence, with a state file that safe_sync    *)
(* wrote.                                                                  *)

\* An entity that safe_sync inserted for the occurrence of component c.
Managed(id, c, form, native) ==
    LET ev == LocalEvent(c).ev
    IN  RemoteEcho(id, build_event_body(ev, TIMEZONE), ev, form, native)

\* The entities the calendar may hold; they were created in the order of
\* their ids.
DupPool(form, native) ==
    {Managed(1, CompA1, form, native), Managed(2, CompA1, form, native),
     Imported(3, CompA1, form),
     Managed(4, CompB, form, native), Imported(5, CompB, form)}

\* state.set_event_hash(key, content_hash, google_id) as safe_sync's upsert
\* loop calls it for the occurrence of c; NoId: no entry
WithEntry(st, c, id) ==
    IF id = NoId THEN st
    ELSE set_event_hash(st, LocalEvent(c).key, compute_event_hash(LocalEvent(c).ev), id)

DupStateFiles ==
    {TornFile}
    \cup {WithEntry(WithEntry(EmptyState, CompA1, a), CompB, b) :
            a \in {NoId, 1, 2}, b \in {NoId, 4}}

NoDupStats == [deleted |-> 0, failed |-> 0]

InitDup ==
    /\ dpc = "start"
    /\ apply \in BOOLEAN
    /\ dstate = EmptyState /\ devents = <<>> /\ dup_info = EmptyMap /\ dtodo = <<>>
    /\ dstats = NoDupStats /\ dcalls = {}
    /\ echo \in MainEchoForms /\ native_uid \in BOOLEAN
    /\ remote \in SUBSET DupPool(echo, native_uid)
    /\ next_id = 1
    /\ state_file \in DupStateFiles
    /\ KeyParked /\ BoParked /\ LoadParked /\ RunParked /\ ObsParked /\ RaceParked /\ QuarParked /\ HashParked /\ SerParked /\ CalParked

\* (mutant) deletions are made in a dry run too
AppliesAlways(flag) == TRUE

\* `if not apply: return` of delete_duplicates; --apply is store_true
Applies(flag) == flag

\* main up to the deletion loop: load_state, fetch_all_events (an exception
\* of the listing ends the program), analyze_duplicates, the printed plan
\* and the dry-run return
DMain ==
    /\ dpc = "start"
    /\ \E items \in ListOrders(remote) : \E rs \in ListScripts :
         LET r == request_with_backoff(rs)
             state == load_state(state_file)
             info == analyze_duplicates(items, state)
             order == DeleteOrder(GroupOrder(items), info)
         IN  /\ dcalls' = {Call("list", NoText, NoId, r.resp)}
             /\ IF r.result = "returned"
                THEN /\ dstate' = state /\ devents' = items /\ dup_info' = info
                     /\ dtodo' = IF Applies(apply) THEN order ELSE <<>>
                     /\ dpc' = IF Applies(apply) /\ order # <<>> THEN "deleting" ELSE "done"
                ELSE /\ dpc' = "crashed"
                     /\ UNCHANGED <<dstate, devents, dup_info, dtodo>>
    /\ UNCHANGED <<apply, dstats, keyVars, boVars, loadVars, raceVars, quarVars, hashVars, serVars, calVars, envVars, runVars, obsVars>>

\* One turn of `for gid in info["delete_ids"]`.
DDeleteOne ==
    /\ dpc = "deleting" /\ dtodo # <<>>
    /\ LET gid == Head(dtodo)
       IN  \E rs \in ByIdScripts(remote, gid) :
             LET r == request_with_backoff(rs)
             IN  /\ dcalls' = dcalls \cup {Call("delete", NoText, gid, r.resp)}
                 /\ remote' = IF r.result = "returned" THEN {e \in remote : e.id # gid}
                              ELSE remote
                 /\ dstats' = IF DeleteCounts(r) THEN [dstats EXCEPT !.deleted = @ + 1]
                              ELSE [dstats EXCEPT !.failed = @ + 1]
    /\ dtodo' = Tail(dtodo)
    /\ dpc' = IF Tail(dtodo) = <<>> THEN "done" ELSE "deleting"
    /\ UNCHANGED <<apply, dstate, devents, dup_info, keyVars, boVars, loadVars, raceVars, quarVars, hashVars, serVars, calVars, next_id, echo,
                   native_uid, state_file, runVars, obsVars>>

NextDup == DMain \/ DDeleteOne

SpecDup == InitDup /\ [][NextDup]_vars

Analysed == dpc \in {"deleting", "done"}

\* the ids of the entities of the listing that have key `key`
GroupIds(key) == {e.id : e \in {x \in SeqRange(devents) : make_key_from_event(x) = key}}

\* the ids the state file refers to
StateIds == {get_google_id(dstate, k) : k \in get_all_keys(dstate)}

\* C23 (state preference): in every group of two or more entities with one
\* key of which one member is the entity the state file refers to, that
\* member is the keep target and all others are delete targets.
C23_StateReferencedKept ==
    Analysed =>
        \A key \in DOMAIN dup_info :
            \A sid \in StateIds \cap GroupIds(key) :
                /\ dup_info[key].keep_id = sid
                /\ SeqRange(dup_info[key].delete_ids) = GroupIds(key) \ {sid}

\* the keys that two or more entities of the listing have
DuplicatedKeys ==
    {k \in {make_key_from_event(e) : e \in SeqRange(devents)} :
        k # NoText /\ Cardinality(GroupIds(k)) >= 2}

\* C24 (one survivor): the plan has, for every key with two or more
\* entities, one keep_id, a member of the group that is not in delete_ids,
\* and delete_ids is the rest of the group; after --apply the keep target
\* of every group is still there, and when every delete succeeded it is
\* the only one of its group and a second analysis finds no group.
C24_OneSurvivor ==
    Analysed =>
        /\ DOMAIN dup_info = DuplicatedKeys
        /\ \A key \in DOMAIN dup_info :
             LET p == dup_info[key]
             IN  /\ p.keep_id \in GroupIds(key)
                 /\ p.keep_id \notin SeqRange(p.delete_ids)
                 /\ SeqRange(p.delete_ids) = GroupIds(key) \ {p.keep_id}
                 /\ \E e \in remote : e.id = p.keep_id
                 /\ (dpc = "done" /\ apply /\ AllOk(dcalls)) =>
                        {e.id : e \in remote} \cap GroupIds(key) = {p.keep_id}
        /\ (dpc = "done" /\ apply /\ AllOk(dcalls)) =>
              \A items \in ListOrders(remote) : DOMAIN analyze_duplicates(items, dstate) = {}

\* two groups, of three and of two entities, were reduced to one each
C24_Witness ==
    /\ dpc = "done" /\ apply /\ AllOk(dcalls)
    /\ Cardinality(DOMAIN dup_info) = 2
    /\ dstats.deleted = 3
    /\ Cardinality(remote) = 2

\* C25 (dry run by default): without --apply no delete call is issued and
\* the calendar stays as it was listed.
C25_DryRunDeletesNothing ==
    ~apply =>
        /\ \A c \in dcalls : c.op # "delete"
        /\ dpc # "deleting"
        /\ dpc = "done" => remote = SeqRange(devents)

\* a dry run that found a group and planned deletions
C25_Witness ==
    /\ dpc = "done" /\ ~apply
    /\ \E key \in DOMAIN dup_info : dup_info[key].delete_ids # <<>>
    /\ remote = SeqRange(devents)

\* C26 (fallback order): in a group no member of which the state file
\* refers to, the keep target is the oldest-created member that carries
\* the marker; when no member carries it, the first entity of the listing.
C26_FallbackOrder ==
    Analysed =>
        \A key \in DOMAIN dup_info :
            StateIds \cap GroupIds(key) = {} =>
                LET evs == Group(devents, key)
                    managed == {evs[i].id : i \in {j \in 1..Len(evs) : HasMarker(evs[j])}}
                IN  dup_info[key].keep_id
                        = (IF managed # {} THEN Lowest(managed) ELSE evs[1].id)

-----------------------------------------------------------------------------
(* Specification SpecHelpers: the two key helpers on one remote event:     *)
(* the key under which fetch_google_events of safe_sync.py indexes it, and *)
(* the key make_key_from_event of cleanup_duplicates.py returns for it.    *)
(* The event has a native iCalUID or not, a private icalUID tag or not,    *)
(* and a start that is missing, a date, or a dateTime with or without      *)
(* seconds, printed with "Z", with an offset, or with neither.             *)

HelperHours == {9, 14}

HelperSuffixes == {<<>>, <<"Z">>, OffsetStr(120), OffsetStr(-300)}

\* HH:MM:SS, or HH:MM
HelperClocks(hh) == {TimeStr(hh, 0, 0), Pad2(hh) \o <<":">> \o Pad2(0)}

HelperStarts ==
    {NoStart}
    \cup {[NoStart EXCEPT !.date = DateStr(d)] : d \in KeyDay..(KeyDay + 1)}
    \cup {[NoStart EXCEPT !.dateTime = DateStr(d) \o <<"T">> \o clock \o suffix] :
             d \in KeyDay..(KeyDay + 1),
             clock \in UNION {HelperClocks(hh) : hh \in HelperHours},
             suffix \in HelperSuffixes}

HelperItems ==
    {[id |-> 1, iCalUID |-> native, icalUID |-> tag, start |-> start] :
        native \in {NoText, GeneratedUid(1)}, tag \in {NoText, UidA}, start \in HelperStarts}

InitHelpers ==
    /\ kpc = "item"
    /\ kitem \in HelperItems
    /\ kcomp = NoDt /\ kev = NoDt /\ klocal = NoText /\ kremote = NoText /\ kresult = NoText
    /\ echo \in MainEchoForms /\ native_uid = FALSE
    /\ BoParked /\ LoadParked /\ DupParked /\ RaceParked /\ QuarParked /\ HashParked
    /\ SerParked /\ CalParked /\ EnvParked /\ RunParked /\ ObsParked

\* the loop body of fetch_google_events and make_key_from_event, on the item
HKeys ==
    /\ kpc = "item"
    /\ kremote' = RemoteKey(kitem)
    /\ kresult' = make_key_from_event(kitem)
    /\ kpc' = "keyed"
    /\ UNCHANGED <<kcomp, kev, kitem, klocal, boVars, loadVars, raceVars, quarVars, hashVars,
                   serVars, calVars, dupVars, envVars, runVars, obsVars>>

NextHelpers == HKeys

SpecHelpers == InitHelpers /\ [][NextHelpers]_vars

\* C39 (key helpers match): for every remote event make_key_from_event
\* returns the key under which fetch_google_events indexes the event, and
\* no key exactly when fetch_google_events does not index it.
C39_KeyHelpersMatch ==
    kpc = "keyed" => kresult = kremote

-----------------------------------------------------------------------------
(* Specification SpecRetry: runs over one unchanging export, the meeting   *)
(* under its new title, against a calendar and a state file that are empty *)
(* or as a successful run over the meeting under its old title and the     *)
(* all-day event left them: the runs have to create, or to update and to   *)
(* delete, and any remote call may fail.                                   *)

RetrySources == {<<CompA2>>}

\* remote and state file after a run that created the occurrences of comps
\* with ids from FirstFreeId on
RECURSIVE SyncedRemote(_, _, _, _)
SyncedRemote(comps, id, form, native) ==
    IF comps = <<>> THEN {}
    ELSE {Managed(id, Head(comps), form, native)}
            \cup SyncedRemote(Tail(comps), id + 1, form, native)

RECURSIVE SyncedState(_, _)
SyncedState(comps, id) ==
    IF comps = <<>> THEN EmptyState
    ELSE WithEntry(SyncedState(Tail(comps), id + 1), Head(comps), id)

RetryStarts == {<<>>, <<CompA1, CompB>>}

InitRetry ==
    /\ echo \in MainEchoForms
    /\ native_uid \in BOOLEAN
    /\ \E comps \in RetryStarts :
         /\ remote = SyncedRemote(comps, FirstFreeId, echo, native_uid)
         /\ state_file = SyncedState(comps, FirstFreeId)
         /\ next_id = FirstFreeId + Len(comps)
    /\ pc = "idle"
    /\ force_full = FALSE
    /\ state_data = EmptyState /\ local_events = EmptyMap /\ google_events = EmptyMap
    /\ stats = NoStats /\ processed_google_ids = {} /\ todo = <<>> /\ orphan_todo = {}
    /\ exit_code = -1
    /\ calls = {} /\ confirmed = {} /\ visited = {} /\ run_start_file = EmptyState
    /\ steady = FALSE /\ clean = FALSE /\ tampered = FALSE /\ runs = 0
    /\ KeyParked /\ BoParked /\ LoadParked /\ DupParked /\ RaceParked /\ QuarParked /\ HashParked /\ SerParked /\ CalParked

RetryBegin == BeginWith(RetrySources) /\ UNCHANGED raceVars

NextRetry == RetryBegin \/ UpsertOne \/ OrphanOne \/ Finish

SpecRetry == InitRetry /\ [][NextRetry]_vars

\* the managed entities on the calendar are the desired occurrences: one
\* entity for each, with the title of the export, and no other
ManagedMatchesDesired ==
    LET managed == {e \in remote : HasMarker(e)}
    IN  /\ \A k \in DOMAIN local_events :
              Cardinality({e \in managed : e.icalUID = local_events[k].uid
                                           /\ e.summary = local_events[k].summary}) = 1
        /\ \A e \in managed : \E k \in DOMAIN local_events : e.icalUID = local_events[k].uid

\* C28 (self-correction): what failed in one run is attempted again by the
\* next, so a run over the same export all of whose remote calls succeed
\* ends with the managed entities equal to the desired set, whatever failed
\* in the runs before it.
C28_NextRunCorrects ==
    (Finished /\ AllOk(calls)) => ManagedMatchesDesired

-----------------------------------------------------------------------------
(* Specification SpecStale: runs against a calendar that holds the managed *)
(* entity of the all-day event, with a state file of any provenance: none, *)
(* the one a successful run wrote, or one with an entry under the key of   *)
(* the day before (the event was moved by a day, in the source and, by     *)
(* hand, on the calendar) that names the same entity.                      *)

StaleSources == {<<CompB>>, <<CompA1, CompB>>}

\* the key and the hash of the all-day event when it was a day earlier
CompBEarlier == MkComp(UidB, FALSE, MkDate(4), MkDate(5), "holiday", "HQ", NoText)

StaleStates(id) ==
    {st \in {EmptyState, SyncedState(<<CompB>>, id)} : TRUE}
    \cup {WithEntry(st, CompBEarlier, id) : st \in {EmptyState, SyncedState(<<CompB>>, id)}}

InitStale ==
    /\ echo \in MainEchoForms
    /\ native_uid \in BOOLEAN
    /\ remote = SyncedRemote(<<CompB>>, FirstFreeId, echo, native_uid)
    /\ state_file \in StaleStates(FirstFreeId)
    /\ next_id = FirstFreeId + 1
    /\ pc = "idle"
    /\ force_full \in BOOLEAN
    /\ state_data = EmptyState /\ local_events = EmptyMap /\ google_events = EmptyMap
    /\ stats = NoStats /\ processed_google_ids = {} /\ todo = <<>> /\ orphan_todo = {}
    /\ exit_code = -1
    /\ calls = {} /\ confirmed = {} /\ visited = {} /\ run_start_file = EmptyState
    /\ steady = FALSE /\ clean = FALSE /\ tampered = FALSE /\ runs = 0
    /\ KeyParked /\ BoParked /\ LoadParked /\ DupParked /\ RaceParked /\ QuarParked /\ HashParked
    /\ SerParked /\ CalParked

StaleBegin == BeginWith(StaleSources) /\ UNCHANGED raceVars

NextStale == StaleBegin \/ UpsertOne \/ OrphanOne \/ Finish

SpecStale == InitStale /\ [][NextStale]_vars

\* C36 (orphan pass spares matched entities): within one run, a remote
\* entity that was matched to a desired key in the upsert phase (skipped,
\* updated or created for it) gets no delete call from the orphan pass of
\* the same run, whatever the state file holds.
C36_OrphanPassSparesMatched ==
    Running => \A c \in calls : c.op = "delete" => c.id \notin processed_google_ids

-----------------------------------------------------------------------------
(* Specification SpecHash: compute_event_hash on two instances.  An        *)
(* instance is a dict: a sequence of (field, value) pairs in the order in  *)
(* which the fields were set, read by ev.get(field).                       *)

FieldNames == <<"summary", "location", "description", "start", "end", "allDay">>

\* the orders in which the two dicts may hold their fields
FieldOrders == {FieldNames, [i \in 1..Len(FieldNames) |-> FieldNames[Len(FieldNames) + 1 - i]]}

\* how many characters a long description has beyond the hashed ones
MaxTail == 1

\* a description of DESCRIPTION_HASHED times "x" and then MaxTail times c
LongText(c) ==
    [i \in 1..(DESCRIPTION_HASHED + MaxTail) |-> IF i <= DESCRIPTION_HASHED THEN "x" ELSE c]

HashDescriptions == {NoText, LongText("a"), LongText("b")}

HashInstances ==
    [summary : {"standup", "retro"}, location : {"", "HQ"}, description : HashDescriptions,
     start : {MkDate(5), MkDateTime(5, 9, 0, 0, TRUE, -300)},
     end : {MkDate(6), MkDateTime(5, 10, 0, 0, TRUE, -300)},
     allDay : BOOLEAN]

\* the dict that holds the fields of `rec` in the order `order`
AsDict(rec, order) == [i \in 1..Len(order) |-> <<order[i], rec[order[i]]>>]

\* ev.get(field) on a dict that has the field
DictGet(d, field) == d[CHOOSE i \in 1..Len(d) : d[i][1] = field][2]

\* the six fields compute_event_hash reads from the dict
FieldsOf(d) == [f \in {FieldNames[i] : i \in 1..Len(FieldNames)} |-> DictGet(d, f)]

InitHash ==
    /\ hpc = "start"
    /\ \E l \in HashInstances : hleft = AsDict(l, FieldNames)
    /\ \E r \in HashInstances : \E o \in FieldOrders : hright = AsDict(r, o)
    /\ hhash = <<>>
    /\ echo \in MainEchoForms /\ native_uid = FALSE
    /\ KeyParked /\ BoParked /\ LoadParked /\ DupParked /\ RaceParked /\ QuarParked /\ SerParked /\ CalParked
    /\ EnvParked /\ RunParked /\ ObsParked

HHash ==
    /\ hpc = "start"
    /\ hhash' = <<compute_event_hash(FieldsOf(hleft)), compute_event_hash(FieldsOf(hright))>>
    /\ hpc' = "done"
    /\ UNCHANGED <<hleft, hright, keyVars, loadVars, dupVars, raceVars, quarVars, serVars, calVars, boVars, envVars,
                   runVars, obsVars>>

NextHash == HHash

SpecHash == InitHash /\ [][NextHash]_vars

\* C29 (fingerprint coverage): two instances have the same hash exactly when
\* they agree in summary, location, description, start, end and isAllDay, in
\* whatever order their fields are held; a difference in one field, anywhere
\* in the description included, gives different hashes.
C29_HashCoversSixFields ==
    hpc = "done" =>
        (hhash[1] = hhash[2]
            <=> \A i \in 1..Len(FieldNames) :
                    DictGet(hleft, FieldNames[i]) = DictGet(hright, FieldNames[i]))

-----------------------------------------------------------------------------
(* backups/working_2025-07-26_1326/safe_sync.py: the sync script that      *)
(* keys events by their VEVENT UID, tags its entities with compositeUID    *)
(* and reads a quarantine list.  It is one script, top to bottom: an       *)
(* exception that nothing catches ends it where it is.                     *)

RETRY_TRIES == 3

\* socket.timeout / TimeoutError out of req.execute()
TimedOut == Resp(0, "timed out")

\* retry(fn), from attempt n on (`for n in range(3)`); rs are the outcomes
\* of the successive fn(), the last one repeating.  A timeout is raised on
\* the last attempt only; a 403 or 429 is slept on and never raised, so
\* after three of them the loop ends and retry returns None.
RECURSIVE retry_from(_, _)
retry_from(rs, n) ==
    IF n = RETRY_TRIES THEN [result |-> "none", resp |-> rs[Min(n, Len(rs))]]
    ELSE LET r == rs[Min(n + 1, Len(rs))]
         IN  IF r = Ok THEN [result |-> "returned", resp |-> Ok]
             ELSE IF r = TimedOut
                  THEN IF n = RETRY_TRIES - 1 THEN [result |-> "raised", resp |-> r]
                       ELSE retry_from(rs, n + 1)
             ELSE IF r.status \in {403, 429} THEN retry_from(rs, n + 1)
             ELSE [result |-> "raised", resp |-> r]

retry(rs) == retry_from(rs, 0)

\* the UTC offset of the machine's zone, which dt.astimezone() converts to
SystemOffset == -300

\* to_gcal_dt
to_gcal_dt(dt) ==
    IF IsDateTime(dt) THEN [NoStart EXCEPT !.dateTime = to_iso(AtOffset(dt, SystemOffset))]
    ELSE [NoStart EXCEPT !.date = to_iso(dt)]

\* body_hash, taken as collision-free: what is serialised
body_hash(b) == <<b.summary, b.location, b.start, b.end, b.compositeUID>>

\* the body of the add/update loop up to `body["description"] = ...`
QuarBody(uid, comp) ==
    LET e == IF comp.dtend.kind = "none" THEN comp.dtstart ELSE comp.dtend
        b == [summary |-> comp.summary, location |-> comp.location,
              start |-> to_gcal_dt(comp.dtstart), end |-> to_gcal_dt(e), compositeUID |-> uid]
    IN  [summary |-> b.summary, location |-> b.location, start |-> b.start, end |-> b.end,
         compositeUID |-> b.compositeUID, description |-> body_hash(b)]

\* the entity the remote holds for a body
QuarEntity(id, body) ==
    [id |-> id, summary |-> body.summary, location |-> body.location, start |-> body.start,
     end |-> body.end, compositeUID |-> body.compositeUID, description |-> body.description]

\* An ordered dict: a sequence of <<key, value>> pairs.
DictHas(d, k) == \E i \in 1..Len(d) : d[i][1] = k
DictSet(d, k, v) ==
    IF DictHas(d, k) THEN [i \in 1..Len(d) |-> IF d[i][1] = k THEN <<k, v>> ELSE d[i]]
    ELSE Append(d, <<k, v>>)

\* `if uid not in outlook: outlook[uid] = ev`, component by component
RECURSIVE LoadOutlook(_)
LoadOutlook(comps) ==
    IF comps = <<>> THEN <<>>
    ELSE LET n == Len(comps)
             before == LoadOutlook(SubSeq(comps, 1, n - 1))
         IN  IF DictHas(before, comps[n].uid) THEN before
             ELSE Append(before, <<comps[n].uid, comps[n]>>)

\* `if key: google[key] = it`, item by item
RECURSIVE QuarIndex(_)
QuarIndex(items) ==
    IF items = <<>> THEN <<>>
    ELSE LET n == Len(items)
             before == QuarIndex(SubSeq(items, 1, n - 1))
             key == items[n].compositeUID
         IN  IF key = NoText THEN before ELSE DictSet(before, key, items[n])

IsSpace(c) == c \in {" ", "\n", "\t"}

\* str.split(): the words between runs of whitespace
RECURSIVE Words(_)
Words(text) ==
    IF text = <<>> THEN {}
    ELSE IF IsSpace(Head(text)) THEN Words(Tail(text))
    ELSE LET ends == {i \in 1..Len(text) : IsSpace(text[i])}
             n == IF ends = {} THEN Len(text)
                  ELSE (CHOOSE i \in ends : \A j \in ends : i <= j) - 1
         IN  {SubSeq(text, 1, n)} \cup Words(SubSeq(text, n + 1, Len(text)))

NoFile == <<"<absent>">>

\* set(open(QUAR_FILE).read().split()) if the file exists, else set()
ReadQuarantine(file) == IF file = NoFile THEN {} ELSE Words(file)

\* `if uid in quarantined: continue`
IsQuarantined(uid, quar) == uid \in quar

\* the queue of the delete section: the tagged entities of the index whose
\* UID is not in the export or is quarantined, in dict order
RECURSIVE DeleteQueue(_, _, _)
DeleteQueue(index, out, quar) ==
    IF index = <<>> THEN <<>>
    ELSE LET uid == Head(index)[1]
             rest == DeleteQueue(Tail(index), out, quar)
         IN  IF ~DictHas(out, uid) \/ uid \in quar
             THEN <<<<uid, Head(index)[2].id>>>> \o rest
             ELSE rest

-----------------------------------------------------------------------------
(* Specification SpecQuar: one run of the quarantine-aware script, on a    *)
(* calendar that holds tagged entities of the meeting (one or, after a     *)
(* retried insert or two runs at once, two of them) and of the all-day     *)
(* event and an untagged copy of the meeting.                              *)

Tagged(id, comp) == QuarEntity(id, QuarBody(comp.uid, comp))

Untagged(id, comp) == [Tagged(id, comp) EXCEPT !.compositeUID = NoText]

QuarPool == {Tagged(1, CompA1), Tagged(2, CompA1), Tagged(3, CompB), Untagged(4, CompA1)}

QuarExports == {<<>>, <<CompA1>>, <<CompB>>, <<CompA2, CompB>>}

\* quarantine.txt: missing, or one UID per line
QuarFiles == {NoFile, <<"A">>, <<"A", "\n", "B", "\n">>}

NoQuarStats == [added |-> 0, updated |-> 0, skipped |-> 0, deleted |-> 0, failed |-> 0]

InitQuar ==
    /\ qpc = "start"
    /\ qexport \in QuarExports
    /\ qfile \in QuarFiles
    /\ qremote \in SUBSET QuarPool
    /\ quarantined = {} /\ outlook = <<>> /\ google = <<>> /\ qtodo = <<>> /\ queue = <<>>
    /\ qstats = NoQuarStats /\ qcalls = {}
    /\ echo \in MainEchoForms /\ native_uid = FALSE
    /\ KeyParked /\ BoParked /\ LoadParked /\ DupParked /\ RaceParked /\ HashParked /\ SerParked /\ CalParked
    /\ EnvParked /\ RunParked /\ ObsParked

QuarListScripts == {<<Ok>>, <<TimedOut, Ok>>, <<R429>>, <<R500>>}
QuarInsertScripts == {<<Ok>>, <<R429>>, <<R400>>}
QuarUpdateScripts == {<<Ok>>, <<R429>>, <<R500>>}
QuarDeleteScripts == {<<Ok>>, <<R429>>, <<R500>>, <<TimedOut>>}
QuarGoneScripts == {<<R404>>, <<R410>>}

\* the id the remote gives to the next entity
NewId(rem) == 1 + Cardinality(QuarPool) + Cardinality(rem \ QuarPool)

\* where the script is after the add/update loop has `rest` left: in the
\* loop, or past the construction of the delete queue
AfterAddUpdate(rest, index, out, quar) ==
    LET q == DeleteQueue(index, out, quar)
    IN  IF rest # <<>> THEN [qpc |-> "upsert", queue |-> <<>>]
        ELSE [qpc |-> IF q = <<>> THEN "done" ELSE "delete", queue |-> q]

\* The script from its first line to the add/update loop: the parse of the
\* export, the listing that builds `google` (a listing that raises, or that
\* retry gives up on, ends the script) and the read of quarantine.txt.
QStart ==
    /\ qpc = "start"
    /\ \E items \in Perms(qremote) : \E rs \in QuarListScripts :
         LET r == retry(rs)
             out == LoadOutlook(qexport)
             index == QuarIndex(items)
             quar == ReadQuarantine(qfile)
             rest == [i \in 1..Len(out) |-> out[i][1]]
             nxt == AfterAddUpdate(rest, index, out, quar)
         IN  /\ outlook' = out
             /\ qcalls' = {Call("list", NoText, NoId, r.resp)}
             /\ IF r.result = "returned"
                THEN /\ google' = index /\ quarantined' = quar /\ qtodo' = rest
                     /\ qpc' = nxt.qpc /\ queue' = nxt.queue
                ELSE /\ qpc' = "crashed"
                     /\ UNCHANGED <<google, quarantined, qtodo, queue>>
    /\ UNCHANGED <<qexport, qfile, qstats, qremote, keyVars, loadVars, dupVars, raceVars, hashVars, serVars, calVars,
                   boVars, envVars, runVars, obsVars>>

QuarCount(st, counter) == [st EXCEPT ![counter] = @ + 1]

\* One turn of `for uid, comp in outlook.items()`.
QAddUpdateOne ==
    /\ qpc = "upsert" /\ qtodo # <<>>
    /\ LET uid == Head(qtodo)
           rest == Tail(qtodo)
           body == QuarBody(uid, DictGet(outlook, uid))
           nxt == AfterAddUpdate(rest, google, outlook, quarantined)
       IN  /\ qtodo' = rest
           /\ IF IsQuarantined(uid, quarantined)
              THEN /\ qpc' = nxt.qpc /\ queue' = nxt.queue
                   /\ UNCHANGED <<qstats, qcalls, qremote>>
              ELSE IF ~DictHas(google, uid)
              THEN \E rs \in QuarInsertScripts :
                     LET r == retry(rs)
                         id == NewId(qremote)
                     IN  /\ qcalls' = qcalls \cup {Call("insert", uid, NoId, r.resp)}
                         /\ qremote' = IF r.result = "returned"
                                       THEN qremote \cup {QuarEntity(id, body)} ELSE qremote
                         /\ IF r.result = "raised"
                            THEN qpc' = "crashed" /\ UNCHANGED <<qstats, queue>>
                            ELSE /\ qstats' = QuarCount(qstats, "added")
                                 /\ qpc' = nxt.qpc /\ queue' = nxt.queue
              ELSE IF DictGet(google, uid).description # body.description
              THEN \E rs \in QuarUpdateScripts :
                     LET r == retry(rs)
                         g_evt == DictGet(google, uid)
                     IN  /\ qcalls' = qcalls \cup {Call("update", uid, g_evt.id, r.resp)}
                         /\ qremote' = IF r.result = "returned"
                                       THEN {IF e.id = g_evt.id THEN QuarEntity(e.id, body) ELSE e :
                                               e \in qremote}
                                       ELSE qremote
                         /\ IF r.result = "raised"
                            THEN qpc' = "crashed" /\ UNCHANGED <<qstats, queue>>
                            ELSE /\ qstats' = QuarCount(qstats, "updated")
                                 /\ qpc' = nxt.qpc /\ queue' = nxt.queue
              ELSE /\ qstats' = QuarCount(qstats, "skipped")
                   /\ qpc' = nxt.qpc /\ queue' = nxt.queue
                   /\ UNCHANGED <<qcalls, qremote>>
    /\ UNCHANGED <<qexport, qfile, quarantined, outlook, google, keyVars, loadVars, dupVars,
                   raceVars, hashVars, serVars, calVars, boVars, envVars, runVars, obsVars>>

\* One `queue.popleft()` of the delete section and what follows it.  Only
\* HttpError is caught: a request that timed out three times ends the
\* script.  A 403 or 429 never leaves retry, which returns None after the
\* third, and the entity is counted as deleted.
QDeleteOne ==
    /\ qpc = "delete" /\ queue # <<>>
    /\ LET uid == Head(queue)[1]
           eid == Head(queue)[2]
       IN  \E rs \in (IF \E e \in qremote : e.id = eid THEN QuarDeleteScripts
                      ELSE QuarGoneScripts) :
             LET r == retry(rs)
                 raised == r.result = "raised"
                 requeue == raised /\ IsHttpError(r.resp) /\ r.resp.status \in {403, 429}
                 left == IF requeue THEN Append(Tail(queue), Head(queue)) ELSE Tail(queue)
             IN  /\ qcalls' = qcalls \cup {Call("delete", uid, eid, r.resp)}
                 /\ qremote' = IF r.result = "returned" THEN {e \in qremote : e.id # eid}
                               ELSE qremote
                 /\ queue' = left
                 /\ qstats' = IF ~raised \/ (IsHttpError(r.resp) /\ r.resp.status \in {404, 410})
                              THEN QuarCount(qstats, "deleted")
                              ELSE IF IsHttpError(r.resp) /\ ~requeue
                              THEN QuarCount(qstats, "failed")
                              ELSE qstats
                 /\ qpc' = IF raised /\ ~IsHttpError(r.resp) THEN "crashed"
                           ELSE IF left = <<>> THEN "done" ELSE "delete"
    /\ UNCHANGED <<qexport, qfile, quarantined, outlook, google, qtodo, keyVars, loadVars, dupVars,
                   raceVars, hashVars, serVars, calVars, boVars, envVars, runVars, obsVars>>

NextQuar == QStart \/ QAddUpdateOne \/ QDeleteOne

SpecQuar == InitQuar /\ [][NextQuar]_vars

QuarOver == qpc \in {"done", "crashed"}

\* C30 (quarantine): for every UID of the quarantine list the run issues no
\* insert and no update, and issues a delete for every tagged entity of
\* that UID that the calendar holds; no untagged entity is deleted.
C30_QuarantineHonoured ==
    /\ \A c \in qcalls : c.op \in {"insert", "update"} => c.key \notin ReadQuarantine(qfile)
    /\ \A c \in qcalls : \A e \in QuarPool :
          (c.op = "delete" /\ c.id = e.id) => e.compositeUID # NoText
    /\ QuarOver =>
          \A e \in qremote :
              e.compositeUID \in ReadQuarantine(qfile) =>
                  \E c \in qcalls : c.op = "delete" /\ c.id = e.id

-----------------------------------------------------------------------------
(* Specification SpecSeries: load_local_events on an export that holds one *)
(* recurring series: the master VEVENT (RRULE, EXDATE) followed by its     *)
(* exception VEVENTs (RECURRENCE-ID, STATUS).  The expansion is the        *)
(* library's: one component per occurrence of the rule that no EXDATE      *)
(* excludes, the exception component in place of the generated one where   *)
(* a RECURRENCE-ID names the occurrence.  When the expansion raises, the   *)
(* loader falls back to the VEVENTs as they stand in the file.             *)

MaxOccur == 3

SeriesUid == <<"S", "2">>

\* the start of the i-th occurrence of the daily rule
OccurrenceStart(i) == MkDateTime(KeyDay + i - 1, 9, 0, 0, TRUE, -300)

SeriesComp(s, e, rrule, exdate, recurrence_id, status) ==
    [name |-> "VEVENT", uid |-> SeriesUid, ms_allday |-> FALSE, dtstart |-> s, dtend |-> e,
     summary |-> "review", location |-> "", description |-> NoText,
     rrule |-> rrule, exdate |-> exdate, recurrence_id |-> recurrence_id, status |-> status]

\* what the source says about each occurrence of the rule
OccurrenceKinds == {"plain", "exdate", "moved", "cancelled"}

Master(kinds) ==
    SeriesComp(OccurrenceStart(1), PlusMinutes(OccurrenceStart(1), 30), Len(kinds),
               {i \in 1..Len(kinds) : kinds[i] = "exdate"}, 0, "")

\* the exception component of occurrence i: moved by an hour, or cancelled in place
ExceptionComp(kinds, i) ==
    IF kinds[i] = "moved"
    THEN SeriesComp(PlusMinutes(OccurrenceStart(i), 60), PlusMinutes(OccurrenceStart(i), 90),
                    0, {}, i, "CONFIRMED")
    ELSE SeriesComp(OccurrenceStart(i), PlusMinutes(OccurrenceStart(i), 30), 0, {}, i, "CANCELLED")

RECURSIVE Exceptions(_, _)
Exceptions(kinds, i) ==
    IF i > Len(kinds) THEN <<>>
    ELSE (IF kinds[i] \in {"moved", "cancelled"} THEN <<ExceptionComp(kinds, i)>> ELSE <<>>)
         \o Exceptions(kinds, i + 1)

SeriesCalendar(kinds) == <<Master(kinds)>> \o Exceptions(kinds, 1)

\* recurring_ical_events.of(cal).between(window_start, window_end)
RECURSIVE between_from(_, _)
between_from(cal, i) ==
    LET master == cal[1]
        overriding == {j \in 2..Len(cal) : cal[j].recurrence_id = i}
        generated == [master EXCEPT !.dtstart = OccurrenceStart(i),
                                    !.dtend = PlusMinutes(OccurrenceStart(i), 30)]
    IN  IF i > master.rrule THEN <<>>
        ELSE (IF i \in master.exdate THEN <<>>
              ELSE IF overriding # {} THEN <<cal[CHOOSE j \in overriding : TRUE]>>
              ELSE <<generated>>)
             \o between_from(cal, i + 1)

between(cal) == between_from(cal, 1)

\* list(cal.walk("VEVENT")): the components of the file, unexpanded
walk(cal) == cal

InitSeries ==
    /\ spc = "export"
    /\ scal \in {SeriesCalendar(kinds) :
                    kinds \in UNION {[1..n -> OccurrenceKinds] : n \in 1..MaxOccur}}
    /\ sexpanded = <<>> /\ sevents = <<>>
    /\ echo \in MainEchoForms /\ native_uid = FALSE
    /\ KeyParked /\ BoParked /\ LoadParked /\ DupParked /\ RaceParked /\ QuarParked /\ HashParked
    /\ CalParked /\ EnvParked /\ RunParked /\ ObsParked

\* load_local_events: the expansion, or the fallback when it raises, then
\* the loop over the components
SLoad ==
    /\ spc = "export"
    /\ \E raised \in BOOLEAN :
         sexpanded' = IF raised THEN walk(scal) ELSE between(scal)
    /\ sevents' = load_local_events(sexpanded')
    /\ spc' = "loaded"
    /\ UNCHANGED <<scal, keyVars, loadVars, dupVars, raceVars, quarVars, hashVars, calVars,
                   boVars, envVars, runVars, obsVars>>

NextSeries == SLoad

SpecSeries == InitSeries /\ [][NextSeries]_vars

\* the occurrences the source marks as cancelled: excluded by the master's
\* EXDATE, or overridden by an exception whose STATUS is CANCELLED
CancelledOccurrences(cal) ==
    cal[1].exdate \cup
    {cal[j].recurrence_id : j \in {k \in 2..Len(cal) : cal[k].status = "CANCELLED"}}

InstanceAt(events, i) ==
    \E key \in DOMAIN events :
        events[key].uid = SeriesUid /\ events[key].start = OccurrenceStart(i)

\* C31 (cancelled exceptions): an occurrence of a recurring series that
\* the source marks as cancelled yields no instance in the desired set.
C31_CancelledOccurrenceDropped ==
    spc = "loaded" => \A i \in CancelledOccurrences(scal) : ~InstanceAt(sevents, i)

-----------------------------------------------------------------------------
(* calendar_sync.py: one cycle of CalendarSync.run, with the default       *)
(* configuration (no batch operations, health monitoring on).              *)

\* str(component.get('description', ''))[:100]
UID_DESCRIPTION == 100

\* max_retries of execute_with_backoff
MAX_RETRIES == 5

\* the timestamp generate_uid signs: the date, or the instant in UTC
UidTimestamp(dtstart) ==
    IF IsDate(dtstart) THEN <<"date", dtstart.day>>
    ELSE <<"utc", UtcMinutes(IF dtstart.aware THEN dtstart
                             ELSE [dtstart EXCEPT !.aware = TRUE, !.off = SystemOffset]),
           dtstart.ss>>

\* generate_uid: the digest of summary, location, description[:100] and the
\* timestamp, taken as collision-free: the tuple of what is signed
CalendarSync_generate_uid(component) ==
    <<component.summary, component.location,
      Take(component.description, UID_DESCRIPTION)>> \o UidTimestamp(component.dtstart)

\* build_event_body: a date pair for an all-day event, else two instants;
\* location and description only when they are not empty
CalendarSync_build_event_body(component, uid) ==
    LET dtstart == component.dtstart
        dtend == component.dtend
        is_standard_all_day == IsDate(dtstart)
        starts_at_midnight == dtstart.hh = 0 /\ dtstart.mm = 0 /\ dtstart.ss = 0
        duration == UtcMinutes(dtend) - UtcMinutes(dtstart)
        is_all_day == is_standard_all_day
                      \/ (starts_at_midnight /\ duration > 0 /\ duration % 1440 = 0)
        localized(dt) == IF dt.aware THEN dt ELSE [dt EXCEPT !.aware = TRUE, !.off = SystemOffset]
    IN  [summary |-> component.summary,
         start |-> IF is_all_day THEN DateStr(dtstart.day) ELSE to_iso(localized(dtstart)),
         end |-> IF is_all_day THEN DateStr(dtend.day) ELSE to_iso(localized(dtend)),
         allDay |-> is_all_day,
         iCalUID |-> uid,
         location |-> component.location,
         description |-> component.description]

\* execute_with_backoff on the answers the remote gives to the successive
\* executions (the last answer repeats): "ok" with the response, "none"
\* for an ignored 409/404/410, "raise" for everything else
RECURSIVE execute_from(_, _)
execute_from(answers, tried) ==
    LET r == answers[Min(tried + 1, Len(answers))]
    IN  IF tried >= MAX_RETRIES THEN "none"
        ELSE IF r = Ok THEN "ok"
        ELSE IF ~IsHttpError(r) THEN "raise"
        ELSE IF r.status = 409 THEN "none"
        ELSE IF r.status \in {403, 500, 503}
             THEN IF tried < MAX_RETRIES - 1 THEN execute_from(answers, tried + 1)
                  ELSE "raise"
        ELSE IF r.status \in {404, 410} THEN "none"
        ELSE "raise"

CalendarSync_execute_with_backoff(answers) == execute_from(answers, 0)

Repeat(x, n) == [i \in 1..n |-> x]

\* parse_ics_safely: the whole file as one calendar, else section by
\* section, a section that does not parse leaving one entry in the errors
CalendarSync_parse_ics_safely(sections) ==
    IF Len(sections) = 1 /\ sections[1].parses
    THEN [calendars |-> sections, errors |-> <<>>]
    ELSE [calendars |-> SelectSeq(sections, LAMBDA x : x.parses),
          errors |-> Repeat("Parse error section",
                           Len(SelectSeq(sections, LAMBDA x : ~x.parses)))]

\* the loop `for cal in calendars` of sync_events
RECURSIVE ExpandAll(_)
ExpandAll(calendars) ==
    IF calendars = <<>> THEN [events |-> <<>>, errors |-> <<>>]
    ELSE LET rest == ExpandAll(Tail(calendars))
             cal == Head(calendars)
         IN  IF cal.expands
             THEN [events |-> cal.comps \o rest.events, errors |-> rest.errors]
             ELSE [events |-> rest.events,
                   errors |-> <<"Recurring expansion error">> \o rest.errors]

\* get_existing_google_events: every listed event that has an iCalUID
CalendarSync_get_existing_google_events(entities) ==
    [uid \in {e.iCalUID : e \in entities} |-> CHOOSE e \in entities : e.iCalUID = uid]

\* the comparison of sync_events: summary, location, description
is_changed(body, existing_event) ==
    \/ body.summary # existing_event.summary
    \/ body.location # existing_event.location
    \/ body.description # existing_event.description

\* the event the calendar holds after an insert or an update of `body`
CalEntity(id, body, ours) ==
    [id |-> id, iCalUID |-> body.iCalUID, summary |-> body.summary,
     location |-> body.location, description |-> body.description,
     start |-> body.start, end |-> body.end, ours |-> ours]

(* Specification SpecCal: one cycle against a calendar that holds any      *)
(* subset of three events: one that somebody else created, one that an     *)
(* earlier cycle created for the meeting of the export, and one of an      *)
(* earlier cycle whose title was edited on the calendar since.  The export *)
(* is missing, blank, without any calendar section, or up to MaxSections   *)
(* sections, each of which parses and expands or does not.                 *)

MaxSections == 2

CalCompA ==
    MkComp(UidA, FALSE, MkDateTime(5, 9, 0, 0, TRUE, -300), MkDateTime(5, 10, 0, 0, TRUE, -300),
           "standup", "", NoText)

Section(parses, expands, comps) == [parses |-> parses, expands |-> expands, comps |-> comps]

CalSections ==
    {Section(TRUE, TRUE, <<CalCompA>>), Section(TRUE, TRUE, <<CalCompA, CompB>>),
     Section(FALSE, FALSE, <<>>), Section(TRUE, FALSE, <<>>)}

CalExports ==
    {NoExport, [exists |-> TRUE, blank |-> TRUE, sections |-> <<>>],
     [exists |-> TRUE, blank |-> FALSE, sections |-> <<>>]}
    \cup {[exists |-> TRUE, blank |-> FALSE, sections |-> q] :
             q \in UNION {[1..n -> CalSections] : n \in 1..MaxSections}}

Foreign ==
    [id |-> 1, iCalUID |-> <<"e1@google.com">>, summary |-> "dentist", location |-> "",
     description |-> NoText, start |-> DateStr(6), end |-> DateStr(7), ours |-> FALSE]

OursA ==
    CalEntity(2, CalendarSync_build_event_body(CalCompA, CalendarSync_generate_uid(CalCompA)),
              TRUE)

OursBEdited ==
    [CalEntity(3, CalendarSync_build_event_body(CompB, CalendarSync_generate_uid(CompB)), TRUE)
        EXCEPT !.summary = "HOLIDAY"]

CalPool == {Foreign, OursA, OursBEdited}

\* the answers of the remote to one request: success, a conflict, a client
\* error, or a server error followed by success
CalScripts == {<<Ok>>, <<R409>>, <<R400>>, <<R500, Ok>>}

InitCal ==
    /\ cpc = "start"
    /\ export_file \in CalExports
    /\ cremote \in SUBSET CalPool
    /\ cnext_id = Cardinality(CalPool) + 1
    /\ existing_google_events = <<>> /\ all_expanded_events = <<>>
    /\ outlook_uids_in_range = {} /\ processed_uids_this_run = {} /\ orphan_uids = {}
    /\ errors_encountered = <<>> /\ last_sync_success = FALSE /\ consecutive_failures = 0
    /\ events_created = 0 /\ events_updated = 0 /\ events_deleted = 0
    /\ health_file = NoHealth /\ cstate_file = <<>> /\ ccalls = {} /\ cparsed = NotParsed
    /\ echo \in MainEchoForms /\ native_uid = FALSE
    /\ KeyParked /\ BoParked /\ LoadParked /\ DupParked /\ RaceParked /\ QuarParked /\ HashParked
    /\ SerParked /\ EnvParked /\ RunParked /\ ObsParked

\* run, up to the call of sync_events: validate_environment, the
\* AppleScript export and the wait for the export file
CRunStart ==
    /\ cpc = "start"
    /\ \E how \in {"fatal", "noname", "failed", "timeout", "exported"} :
         /\ how = "timeout" => ~export_file.exists
         /\ how = "exported" => export_file.exists
         /\ errors_encountered' =
               CASE how = "fatal" -> Append(errors_encountered, "Fatal error")
                 [] how = "failed" -> Append(errors_encountered, "AppleScript error")
                 [] how = "timeout" -> Append(errors_encountered, "Export timeout")
                 [] OTHER -> errors_encountered
         /\ consecutive_failures' =
               IF how = "exported" THEN consecutive_failures ELSE consecutive_failures + 1
         /\ cpc' = IF how = "exported" THEN "sync" ELSE "finally"
    /\ last_sync_success' = FALSE
    /\ UNCHANGED <<export_file, cremote, cnext_id, existing_google_events, all_expanded_events,
                   outlook_uids_in_range, processed_uids_this_run, orphan_uids, events_created,
                   events_updated, events_deleted, health_file, cstate_file, ccalls, cparsed,
                   keyVars, loadVars, dupVars, raceVars, quarVars, hashVars, serVars, boVars,
                   envVars, runVars, obsVars>>

\* the end of the loop over the expanded events: google_uids_in_range -
\* outlook_uids_in_range
ToOrphans(rest, outlook_uids, existing) ==
    /\ cpc' = IF rest = <<>> THEN "orphans" ELSE "events"
    /\ orphan_uids' = IF rest = <<>> THEN DOMAIN existing \ outlook_uids ELSE {}

\* sync_events returns to run: last_sync_success = True
Returned ==
    /\ last_sync_success' = TRUE
    /\ consecutive_failures' = 0
    /\ cpc' = "finally"

\* an exception leaves sync_events: the `except Exception` of run
Fatal(errors) ==
    /\ errors_encountered' = Append(errors, "Fatal error")
    /\ last_sync_success' = FALSE
    /\ consecutive_failures' = consecutive_failures + 1
    /\ cpc' = "finally"

\* sync_events, from the read of the export to the listing of the calendar
CSyncScan ==
    /\ cpc = "sync"
    /\ IF ~export_file.exists
       THEN /\ errors_encountered' = Append(errors_encountered, "Export file not found")
            /\ Returned
            /\ UNCHANGED <<export_file, existing_google_events, all_expanded_events,
                           orphan_uids, ccalls, cparsed>>
       ELSE IF export_file.blank
       THEN /\ export_file' = NoExport
            /\ Returned
            /\ UNCHANGED <<errors_encountered, existing_google_events, all_expanded_events,
                           orphan_uids, ccalls, cparsed>>
       ELSE LET parsed == CalendarSync_parse_ics_safely(export_file.sections)
                expanded == ExpandAll(parsed.calendars)
                errors == errors_encountered \o parsed.errors \o expanded.errors
                existing == CalendarSync_get_existing_google_events(cremote)
            IN  /\ cparsed' = [nonempty |-> TRUE, sections |-> Len(export_file.sections),
                               failed |-> Len(SelectSeq(export_file.sections,
                                              LAMBDA x : ~(x.parses /\ x.expands))),
                               expanded |-> Len(expanded.events)]
                /\ \E listed \in BOOLEAN :
                     /\ ccalls' = ccalls \cup {[op |-> "list", uid |-> <<>>, id |-> 0,
                                               ours |-> FALSE,
                                               result |-> IF listed THEN "ok" ELSE "raise"]}
                     /\ IF listed
                        THEN /\ existing_google_events' = existing
                             /\ all_expanded_events' = expanded.events
                             /\ errors_encountered' = errors
                             /\ ToOrphans(expanded.events, {}, existing)
                             /\ UNCHANGED <<last_sync_success, consecutive_failures>>
                        ELSE /\ Fatal(errors)
                             /\ UNCHANGED <<existing_google_events, all_expanded_events,
                                            orphan_uids>>
                /\ UNCHANGED export_file
    /\ UNCHANGED <<cremote, cnext_id, outlook_uids_in_range, processed_uids_this_run,
                   events_created, events_updated, events_deleted, health_file, cstate_file,
                   keyVars, loadVars, dupVars, raceVars, quarVars, hashVars, serVars, boVars,
                   envVars, runVars, obsVars>>

\* one pass of the loop `for component in all_expanded_events`
CProcessOne ==
    /\ cpc = "events" /\ all_expanded_events # <<>>
    /\ \E answers \in CalScripts :
         LET component == Head(all_expanded_events)
             uid == CalendarSync_generate_uid(component)
             new_event_body == CalendarSync_build_event_body(component, uid)
             result == CalendarSync_execute_with_backoff(answers)
             seen == uid \in processed_uids_this_run
             creates == ~seen /\ uid \notin DOMAIN existing_google_events
             updates == /\ ~seen /\ uid \in DOMAIN existing_google_events
                        /\ is_changed(new_event_body, existing_google_events[uid])
             requests == creates \/ updates
             event_id == IF updates THEN existing_google_events[uid].id ELSE 0
         IN  /\ all_expanded_events' = Tail(all_expanded_events)
             /\ outlook_uids_in_range' = outlook_uids_in_range \cup {uid}
             /\ ccalls' = IF requests
                          THEN ccalls \cup {[op |-> IF creates THEN "insert" ELSE "update",
                                             uid |-> uid, id |-> event_id, ours |-> TRUE,
                                             result |-> result]}
                          ELSE ccalls
             /\ cremote' =
                   IF creates /\ result = "ok"
                   THEN cremote \cup {CalEntity(cnext_id, new_event_body, TRUE)}
                   ELSE IF updates /\ result = "ok"
                   THEN {IF e.id = event_id THEN CalEntity(e.id, new_event_body, e.ours) ELSE e :
                            e \in cremote}
                   ELSE cremote
             /\ cnext_id' = IF creates /\ result = "ok" THEN cnext_id + 1 ELSE cnext_id
             /\ events_created' =
                   IF creates /\ result # "raise" THEN events_created + 1 ELSE events_created
             /\ events_updated' =
                   IF updates /\ result # "raise" THEN events_updated + 1 ELSE events_updated
             /\ processed_uids_this_run' =
                   IF seen \/ (requests /\ result = "raise") THEN processed_uids_this_run
                   ELSE processed_uids_this_run \cup {uid}
             /\ errors_encountered' =
                   IF requests /\ result = "raise"
                   THEN Append(errors_encountered, "Event processing error")
                   ELSE errors_encountered
             /\ ToOrphans(Tail(all_expanded_events), outlook_uids_in_range \cup {uid},
                          existing_google_events)
    /\ UNCHANGED <<export_file, existing_google_events, last_sync_success, consecutive_failures,
                   events_deleted, health_file, cstate_file, cparsed,
                   keyVars, loadVars, dupVars, raceVars, quarVars, hashVars, serVars, boVars,
                   envVars, runVars, obsVars>>

\* one pass of the loop `for uid in orphan_uids`
CDeleteOne ==
    /\ cpc = "orphans" /\ orphan_uids # {}
    /\ \E uid \in orphan_uids, answers \in CalScripts :
         LET event_to_delete == existing_google_events[uid]
             result == CalendarSync_execute_with_backoff(answers)
         IN  /\ ccalls' = ccalls \cup {[op |-> "delete", uid |-> uid,
                                        id |-> event_to_delete.id,
                                        ours |-> event_to_delete.ours, result |-> result]}
             /\ cremote' = IF result = "ok" THEN {e \in cremote : e.id # event_to_delete.id}
                           ELSE cremote
             /\ orphan_uids' = orphan_uids \ {uid}
             /\ IF result = "raise"
                THEN /\ Fatal(errors_encountered)
                     /\ UNCHANGED events_deleted
                ELSE /\ events_deleted' = events_deleted + 1
                     /\ UNCHANGED <<cpc, errors_encountered, last_sync_success,
                                    consecutive_failures>>
    /\ UNCHANGED <<export_file, cnext_id, existing_google_events, all_expanded_events,
                   outlook_uids_in_range, processed_uids_this_run, events_created,
                   events_updated, health_file, cstate_file, cparsed,
                   keyVars, loadVars, dupVars, raceVars, quarVars, hashVars, serVars, boVars,
                   envVars, runVars, obsVars>>

\* the end of sync_events: the export file is removed, and run records success
CSyncReturn ==
    /\ cpc = "orphans" /\ orphan_uids = {}
    /\ export_file' = NoExport
    /\ Returned
    /\ UNCHANGED <<cremote, cnext_id, existing_google_events, all_expanded_events,
                   outlook_uids_in_range, processed_uids_this_run, orphan_uids,
                   errors_encountered, events_created, events_updated, events_deleted,
                   health_file, cstate_file, ccalls, cparsed,
                   keyVars, loadVars, dupVars, raceVars, quarVars, hashVars, serVars, boVars,
                   envVars, runVars, obsVars>>

\* write_health_status
HealthOf(success, errors) ==
    [written |-> TRUE, status |-> IF success THEN "healthy" ELSE "unhealthy",
     last_error |-> IF errors # <<>> THEN errors[Len(errors)] ELSE "none"]

\* the `finally` of run: save_sync_state and write_health_status, each of
\* which may fail to write its file
CFinally ==
    /\ cpc = "finally"
    /\ \E saved \in BOOLEAN :
         cstate_file' = IF saved
                        THEN <<[events_created |-> events_created,
                                events_updated |-> events_updated,
                                events_deleted |-> events_deleted,
                                errors |-> Take(errors_encountered, 10),
                                sync_successful |-> last_sync_success]>>
                        ELSE cstate_file
    /\ \E written \in BOOLEAN :
         health_file' = IF written THEN HealthOf(last_sync_success, errors_encountered)
                        ELSE health_file
    /\ cpc' = "done"
    /\ UNCHANGED <<export_file, cremote, cnext_id, existing_google_events, all_expanded_events,
                   outlook_uids_in_range, processed_uids_this_run, orphan_uids,
                   errors_encountered, last_sync_success, consecutive_failures, events_created,
                   events_updated, events_deleted, ccalls, cparsed,
                   keyVars, loadVars, dupVars, raceVars, quarVars, hashVars, serVars, boVars,
                   envVars, runVars, obsVars>>

NextCal == CRunStart \/ CSyncScan \/ CProcessOne \/ CDeleteOne \/ CSyncReturn \/ CFinally

SpecCal == InitCal /\ [][NextCal]_vars

CalMutating(c) == c.op \in {"insert", "update", "delete"}

\* C32 (delete safety of sync_events): the orphan pass never deletes a
\* remote event that this system did not create.
C32_OrphanPassSparesForeign ==
    \A c \in ccalls : c.op = "delete" => c.ours

\* C33 (total parse failure): when a non-empty export yields no expanded
\* event because every calendar section fails to parse or to expand, the
\* cycle issues no insert, update or delete against the remote calendar.
C33_NoCallsAfterTotalParseFailure ==
    (cparsed.nonempty /\ cparsed.sections > 0 /\ cparsed.failed = cparsed.sections
        /\ cparsed.expanded = 0)
        => \A c \in ccalls : ~CalMutating(c)

\* C40 (health reporting): the health file written at the end of a cycle
\* says "healthy" only if the export succeeded and sync_events ran to its
\* end without any entry in errors_encountered.
C40_HealthyMeansNoErrors ==
    (cpc = "done" /\ health_file.written /\ health_file.status = "healthy")
        => errors_encountered = <<>>

====
